---- MODULE Spec2Model ----
(***************************************************************************)
(* Video wall controller (videowall_noc.py): the topology store held by    *)
(* VideoWallController (encoders, decoders, presets, the monitor grid and  *)
(* the operator's selection), the crop geometry of the crop dialog and of  *)
(* the matrix tiling, and the intents each operator handler dispatches;    *)
(* and the calls of AVCITController (login, candidate commands, command    *)
(* log, default credentials, probe) to one device; and the threads: the    *)
(* monitor thread and its sweeps, the daemon threads started by the        *)
(* handlers and what they make the devices show, and the threads inside    *)
(* log_command.                                                            *)
(*                                                                         *)
(* A MonitorWidget is modelled by the decoder it wraps.  Its Tk rendering  *)
(* calls (labels, colours, grid placement) carry no store state and are    *)
(* left out.  A Python dict that is only ever replaced, never updated in   *)
(* place (Decoder.crop, Preset.mappings, Preset.crops), is modelled by its *)
(* value.                                                                  *)
(***************************************************************************)
EXTENDS Integers, Sequences, FiniteSets, TLC

VARIABLES
    encoders,           \* VideoWallController.encoders: id -> Encoder
    decoders,           \* VideoWallController.decoders: id -> Decoder
    presets,            \* VideoWallController.presets: preset number -> Preset or None
    grid_rows,          \* VideoWallController.grid_rows
    grid_cols,          \* VideoWallController.grid_cols
    monitor_widgets,    \* ids of the decoders that have a widget in the grid
    selected_monitors,  \* the selected widgets, in click order
    dispatched,         \* the threads started by the most recent handler
    message,            \* the message box shown by the most recent handler
    dialog,             \* the values given to the dialog of the most recent handler
    fresh,              \* history: presets saved with no topology mutation since
    ops,                \* number of operator actions taken
    limit,              \* the number of operator actions the run is bounded to
    geom,               \* argument/result record of the geometry functions
    command_log,        \* AVCITController.command_log
    username,           \* AVCITController.username
    password,           \* AVCITController.password
    tn,                 \* the Telnet session of the call: none, open, closed, lost
    wire,               \* history: the lines written to the device
    call,               \* the call of AVCITController in progress
    device,             \* the device the calls are made to
    matrices,           \* VideoWallController.matrices
    monitoring,         \* VideoWallController.monitoring
    monitor,            \* VideoWallController.monitor_thread: where it stands
    threads,            \* the daemon threads whose run is followed, in start order
    pool,               \* the number of daemon threads the run follows
    applied,            \* what each decoder's device was last made to show
    loggers             \* the threads inside AVCITController.log_command

vars == <<encoders, decoders, presets, grid_rows, grid_cols, monitor_widgets,
          selected_monitors, dispatched, message, dialog, fresh, ops, limit, geom,
          command_log, username, password, tn, wire, call, device,
          matrices, monitoring, monitor, threads, pool, applied, loggers>>

\* The state of VideoWallController, and that of its AVCITController.
store == <<encoders, decoders, presets, grid_rows, grid_cols, monitor_widgets,
           selected_monitors, dispatched, message, dialog, fresh, ops, limit, geom,
           matrices, monitoring, monitor, threads, pool, applied, loggers>>

avcit == <<command_log, username, password, tn, wire, call, device>>

store_but_loggers ==
    <<encoders, decoders, presets, grid_rows, grid_cols, monitor_widgets,
      selected_monitors, dispatched, message, dialog, fresh, ops, limit, geom,
      matrices, monitoring, monitor, threads, pool, applied>>

\* What the operator's actions on the wall never write: the monitor thread,
\* the daemon threads' effect on the devices, the threads inside log_command.
background == <<monitoring, monitor, pool, applied, loggers>>

(***************************************************************************)
(* Bounds of the model.                                                    *)
(***************************************************************************)
NumEncoders == 2
StripRows == 1
StripCols == 2
WallRows == 2
WallCols == 2
WideRows == 2
WideCols == 3
MaxOps == 3
DeepOps == 5
MaxSelected == 4
MaxTiles == 3
SmallFrame == 5
MaxThreads == 2
MaxExtra == 3
MaxAppenders == 3
MaxCalls == 2

(***************************************************************************)
(* Program constants.                                                      *)
(***************************************************************************)
NumPresets == 2
FrameWidth == 1920
FrameHeight == 1080

\* Python's None: as an object (a crop, an encoder, a preset), and as an
\* encoder identity (Decoder.current_source).
None == [none |-> TRUE]

NoSource == "none"

\* "enc_01" .. of init_devices.
EncoderIds == {"enc_" \o ToString(i) : i \in 1 .. NumEncoders}
PresetIds == 1 .. NumPresets

(***************************************************************************)
(* Python's // and % on integers (floor division, sign of the divisor).    *)
(***************************************************************************)
FloorDiv(a, b) == IF b > 0 THEN a \div b ELSE (0 - a) \div (0 - b)

PyMod(a, b) == IF b > 0 THEN a % b ELSE 0 - ((0 - a) % (0 - b))

(***************************************************************************)
(* Data model.                                                             *)
(***************************************************************************)
CropRegion(x, y, width, height, source_width, source_height, enabled) ==
    [x |-> x, y |-> y, width |-> width, height |-> height,
     source_width |-> source_width, source_height |-> source_height,
     enabled |-> enabled]

\* CropRegion.to_dict: asdict(self), one key per field.
to_dict(crop) ==
    [x |-> crop.x, y |-> crop.y, width |-> crop.width, height |-> crop.height,
     source_width |-> crop.source_width, source_height |-> crop.source_height,
     enabled |-> crop.enabled]

\* CropRegion.from_dict: cls(**data).
from_dict(data) ==
    CropRegion(data.x, data.y, data.width, data.height,
               data.source_width, data.source_height, data.enabled)

\* encoder_config of init_devices: the names and last octets of the first
\* encoders; every address is on 172.16.207.
EncoderNames == <<"Mesa-01", "Mesa-02", "Mesa-03", "Mesa-03.1", "Mesa-04">>

Address(octet) == "172.16.207." \o ToString(octet)

EncoderIndex(id) == CHOOSE i \in 1 .. NumEncoders : id = "enc_" \o ToString(i)

Encoder(id) ==
    [id |-> id, name |-> EncoderNames[EncoderIndex(id)],
     ip |-> Address(74 + EncoderIndex(id)), port |-> 22, rtsp_port |-> 551,
     rtsp_port_preview |-> 2554, status |-> "offline",
     width |-> FrameWidth, height |-> FrameHeight]

Decoder(id, row, col) ==
    [id |-> id, name |-> "M" \o ToString(id), ip |-> Address(10 + id),
     port |-> 23, position |-> <<row, col>>, current_source |-> NoSource,
     status |-> "offline", crop |-> None]

\* Decoder.get_crop_region
get_crop_region(dec) ==
    IF dec.crop # None THEN from_dict(dec.crop) ELSE None

\* Decoder.set_crop_region: a fresh dict, or None.
set_crop_region(dec, crop) ==
    IF crop # None THEN [dec EXCEPT !.crop = to_dict(crop)]
    ELSE [dec EXCEPT !.crop = None]

Preset(mappings, crops) ==
    [mappings |-> mappings, matrices |-> <<>>, crops |-> crops]

\* VideoWallController.init_devices: one encoder per configured source, one
\* decoder per cell of the wall, numbered row-major from 1.
InitEncoders == [e \in EncoderIds |-> Encoder(e)]

InitDecoders(rows, cols) ==
    [idx \in 1 .. rows * cols |->
        Decoder(idx, (idx - 1) \div cols, (idx - 1) % cols)]

(***************************************************************************)
(* Store primitives, by the decoder a widget wraps.                        *)
(***************************************************************************)
\* A variant that leaves the store alone until the device has answered.
set_source_on_reply(decs, d, encoder) == decs

\* MonitorWidget.set_source
set_source(decs, d, encoder) ==
    IF encoder # None THEN [decs EXCEPT ![d].current_source = encoder.id]
    ELSE [decs EXCEPT ![d].current_source = NoSource]

\* MonitorWidget.set_crop
set_crop(decs, d, crop) ==
    [decs EXCEPT ![d] = set_crop_region(@, crop)]

\* VideoWallController.update_mapping
update_mapping(decs, d, encoder_id) ==
    IF d \in DOMAIN decs THEN [decs EXCEPT ![d].current_source = encoder_id]
    ELSE decs

\* A widget object: the decoder it wraps, and whether it is still the widget
\* registered in monitor_widgets (create_monitor_grid replaces every widget).
Widget(d) == [decoder |-> d, live |-> TRUE]

\* The thread started by a handler: its target and arguments.
Task(target, d, encoder_id, crop) ==
    [target |-> target, decoder |-> d, encoder |-> encoder_id, crop |-> crop]

SwitchTask(d, e) == Task("_send_switch_command", d, e, None)

SetCropTask(d, crop) == Task("set_crop", d, NoSource, crop)

ClearCropTask(d) == Task("clear_crop", d, NoSource, None)

MatrixTask(d, e, crop) == Task("_send_matrix_commands", d, e, crop)

\* The keys of a dict in insertion order; every dict of the controller keyed
\* by decoder id is filled in ascending id order.
RECURSIVE InOrder(_)
InOrder(S) ==
    IF S = {} THEN <<>>
    ELSE LET m == CHOOSE x \in S : \A y \in S : x <= y
         IN <<m>> \o InOrder(S \ {m})

Range(seq) == {seq[i] : i \in DOMAIN seq}

(***************************************************************************)
(* Crop geometry.                                                          *)
(***************************************************************************)
\* CropSelectorDialog.apply_crop, the three checks that raise ValueError.
\* A variant that checks the origin and the size but not the far edges.
validate_origin_and_size(crop, source_width, source_height) ==
    /\ ~(crop.x < 0 \/ crop.y < 0)
    /\ ~(crop.width <= 0 \/ crop.height <= 0)

validate(crop, source_width, source_height) ==
    /\ ~(crop.x < 0 \/ crop.y < 0)
    /\ ~(crop.width <= 0 \/ crop.height <= 0)
    /\ ~(crop.x + crop.width > source_width \/ crop.y + crop.height > source_height)

\* Variants of the tiling: the index split by the number of rows, and the
\* tile size rounded up.
tile_by_rows(i, rows, cols, width, height) ==
    LET tile_width == FloorDiv(width, cols)
        tile_height == FloorDiv(height, rows)
        row_idx == PyMod(i, rows)
        col_idx == FloorDiv(i, rows)
    IN CropRegion(col_idx * tile_width, row_idx * tile_height,
                  tile_width, tile_height, width, height, TRUE)

tile_rounded_up(i, rows, cols, width, height) ==
    LET tile_width == FloorDiv(width + cols - 1, cols)
        tile_height == FloorDiv(height + rows - 1, rows)
        row_idx == FloorDiv(i, cols)
        col_idx == PyMod(i, cols)
    IN CropRegion(col_idx * tile_width, row_idx * tile_height,
                  tile_width, tile_height, width, height, TRUE)

\* _apply_matrix.apply: the crop of the i-th monitor (0-based) of the sorted
\* selection.
tile(i, rows, cols, width, height) ==
    LET tile_width == FloorDiv(width, cols)
        tile_height == FloorDiv(height, rows)
        row_idx == FloorDiv(i, cols)
        col_idx == PyMod(i, cols)
    IN CropRegion(col_idx * tile_width, row_idx * tile_height,
                  tile_width, tile_height, width, height, TRUE)

\* sorted(selected_monitors, key=position): a stable sort on (row, column).
PositionLess(p, q) == p[1] < q[1] \/ (p[1] = q[1] /\ p[2] < q[2])

\* The number of monitors of the list that a stable sort puts before the i-th.
Before(decs, mons, i) ==
    Cardinality({j \in DOMAIN mons :
        \/ PositionLess(decs[mons[j].decoder].position, decs[mons[i].decoder].position)
        \/ /\ decs[mons[j].decoder].position = decs[mons[i].decoder].position
           /\ j < i})

\* A variant that keeps the click order.
click_order(decs, mons) == mons

SortByPosition(decs, mons) ==
    [k \in DOMAIN mons |-> mons[CHOOSE i \in DOMAIN mons : Before(decs, mons, i) = k - 1]]

(***************************************************************************)
(* Inputs the operator can give.                                           *)
(***************************************************************************)
\* The three radio buttons of build_controls_panel, scaled to the wall: the
\* whole wall ("4x14"), its upper half ("2x14"), its left half ("4x7").
DisplayModes == {"full", "half_rows", "half_cols"}

\* The (x, y, width, height) typed into the crop dialog.
CropInputs ==
    { <<0, 0, FrameWidth, FrameHeight>>,
      <<FrameWidth \div 2, FrameHeight \div 2, FrameWidth \div 2, FrameHeight \div 2>>,
      <<0 - 1, 0, FrameWidth \div 2, FrameHeight \div 2>>,
      <<0, 0 - 1, FrameWidth \div 2, FrameHeight \div 2>>,
      <<0, 0, 0, FrameHeight>>,
      <<0, 0, FrameWidth, 0 - 1>>,
      <<FrameWidth \div 2, 0, FrameWidth, FrameHeight>>,
      <<0, 1, FrameWidth, FrameHeight>> }

\* The rows and columns typed into the matrix dialog.
ShapeInputs == (0 - 2) .. MaxSelected

\* The (rows, cols) the matrix dialog can give that hold n monitors, and those
\* that do not.
Shapes(n) == {shape \in ShapeInputs \X ShapeInputs : shape[1] * shape[2] = n}

OtherShapes(n) == (ShapeInputs \X ShapeInputs) \ Shapes(n)

(***************************************************************************)
(* Handlers of VideoWallController.                                        *)
(***************************************************************************)
\* One operator action: the message box it shows, the history of untouched
\* snapshots and the action count that bounds the run.
NoMessage == "none"

NoDialog == [handler |-> "none"]

CropDialog(handler, in) == [handler |-> handler, in |-> in]

MatrixDialog(rows, cols, auto_crop, e, mons) ==
    [handler |-> "_apply_matrix", rows |-> rows, cols |-> cols,
     auto_crop |-> auto_crop, encoder |-> e, selected |-> mons]

\* threading.Thread(target=..., daemon=True).start(): the thread stands before
\* the first call of its target, with the arguments it was started with.
Thread(task) ==
    [task |-> task,
     pc |-> IF task.target \in {"_send_switch_command", "_send_matrix_commands"}
            THEN "switch_source" ELSE task.target,
     outcome |-> "none"]

Started(tasks) == [k \in 1 .. Len(tasks) |-> Thread(tasks[k])]

Touch(mutates, box, typed) ==
    /\ message' = box
    /\ dialog' = typed
    /\ ops' = ops + 1
    /\ fresh' = IF mutates THEN {} ELSE fresh
    /\ threads' = IF Len(threads) + Len(dispatched') <= pool
                  THEN threads \o Started(dispatched') ELSE threads

\* create_monitor_grid: every widget is destroyed and one new widget is made
\* for each decoder whose position lies inside grid_rows x grid_cols.
create_monitor_grid(decs, rows, cols) ==
    {d \in DOMAIN decs : decs[d].position[1] < rows /\ decs[d].position[2] < cols}

\* apply_source_to_monitor for each monitor of a list, in order.
RECURSIVE apply_source_each(_, _, _)
apply_source_each(decs, mons, encoder) ==
    IF mons = <<>> THEN decs
    ELSE apply_source_each(set_source(decs, Head(mons).decoder, encoder),
                           Tail(mons), encoder)

\* end_drag over a monitor, with an encoder being dragged.
EndDrag(target, e) ==
    /\ ops < limit
    /\ target \in monitor_widgets
    /\ IF selected_monitors # <<>>
       THEN /\ decoders' = apply_source_each(decoders, selected_monitors, encoders[e])
            /\ dispatched' = [i \in DOMAIN selected_monitors |->
                                 SwitchTask(selected_monitors[i].decoder, e)]
            /\ selected_monitors' = <<>>
       ELSE /\ decoders' = set_source(decoders, target, encoders[e])
            /\ dispatched' = <<SwitchTask(target, e)>>
            /\ UNCHANGED selected_monitors
    /\ Touch(TRUE, NoMessage, NoDialog)
    /\ UNCHANGED <<encoders, presets, grid_rows, grid_cols, monitor_widgets, limit, geom, avcit, matrices, background>>

\* list.remove: the first element equal to w is dropped.
RECURSIVE Remove(_, _)
Remove(seq, w) ==
    IF seq = <<>> THEN <<>>
    ELSE IF Head(seq) = w THEN Tail(seq)
    ELSE <<Head(seq)>> \o Remove(Tail(seq), w)

\* monitor_clicked: toggles the clicked widget in the selection.
MonitorClicked(d) ==
    /\ ops < limit
    /\ d \in monitor_widgets
    /\ IF Widget(d) \in Range(selected_monitors)
       THEN selected_monitors' = Remove(selected_monitors, Widget(d))
       ELSE /\ Len(selected_monitors) < MaxSelected
            /\ selected_monitors' = Append(selected_monitors, Widget(d))
    /\ dispatched' = <<>>
    /\ Touch(FALSE, NoMessage, NoDialog)
    /\ UNCHANGED <<encoders, decoders, presets, grid_rows, grid_cols,
                   monitor_widgets, limit, geom, avcit, matrices, background>>

\* clear_selection (the Escape key).
ClearSelection ==
    /\ ops < limit
    /\ selected_monitors' = <<>>
    /\ dispatched' = <<>>
    /\ Touch(FALSE, NoMessage, NoDialog)
    /\ UNCHANGED <<encoders, decoders, presets, grid_rows, grid_cols,
                   monitor_widgets, limit, geom, avcit, matrices, background>>

\* open_crop_dialog, then CropSelectorDialog.apply_crop with the typed values:
\* the callback runs only when no check raises.
CropDialogApply(d, in) ==
    /\ ops < limit
    /\ d \in monitor_widgets
    /\ decoders[d].current_source # NoSource
    /\ decoders[d].current_source \in DOMAIN encoders
    /\ LET encoder == encoders[decoders[d].current_source]
           crop == CropRegion(in[1], in[2], in[3], in[4],
                              encoder.width, encoder.height, TRUE)
       IN IF validate(crop, encoder.width, encoder.height)
          THEN /\ decoders' = set_crop(decoders, d, crop)
               /\ dispatched' = <<SetCropTask(d, crop)>>
               /\ Touch(TRUE, NoMessage, CropDialog("open_crop_dialog", <<d, in>>))
          ELSE /\ UNCHANGED decoders
               /\ dispatched' = <<>>
               /\ Touch(FALSE, "Valores invalidos", CropDialog("open_crop_dialog", <<d, in>>))
    /\ UNCHANGED <<encoders, presets, grid_rows, grid_cols, monitor_widgets,
                   selected_monitors, limit, geom, avcit, matrices, background>>

\* open_crop_dialog, then CropSelectorDialog.clear_crop: callback(None).
CropDialogClear(d) ==
    /\ ops < limit
    /\ d \in monitor_widgets
    /\ decoders[d].current_source # NoSource
    /\ decoders[d].current_source \in DOMAIN encoders
    /\ decoders' = set_crop(decoders, d, None)
    /\ dispatched' = <<ClearCropTask(d)>>
    /\ Touch(TRUE, NoMessage, NoDialog)
    /\ UNCHANGED <<encoders, presets, grid_rows, grid_cols, monitor_widgets,
                   selected_monitors, limit, geom, avcit, matrices, background>>

\* MonitorWidget.clear_crop (context menu).
clear_crop(decs, d) == [decs EXCEPT ![d] = set_crop_region(@, None)]

MonitorClearCrop(d) ==
    /\ ops < limit
    /\ d \in monitor_widgets
    /\ decoders' = clear_crop(decoders, d)
    /\ dispatched' = <<ClearCropTask(d)>>
    /\ Touch(TRUE, NoMessage, NoDialog)
    /\ UNCHANGED <<encoders, presets, grid_rows, grid_cols, monitor_widgets,
                   selected_monitors, limit, geom, avcit, matrices, background>>

\* MonitorWidget.clear_source: set_source(None), clear_crop(), update_mapping.
clear_source(decs, d) ==
    update_mapping(clear_crop(set_source(decs, d, None), d), d, NoSource)

MonitorClearSource(d) ==
    /\ ops < limit
    /\ d \in monitor_widgets
    /\ decoders' = clear_source(decoders, d)
    /\ dispatched' = <<ClearCropTask(d)>>
    /\ Touch(TRUE, NoMessage, NoDialog)
    /\ UNCHANGED <<encoders, presets, grid_rows, grid_cols, monitor_widgets,
                   selected_monitors, limit, geom, avcit, matrices, background>>

\* clear_all, confirmed: clear_source on every widget of the grid.
RECURSIVE clear_source_each(_, _)
clear_source_each(decs, ids) ==
    IF ids = <<>> THEN decs
    ELSE clear_source_each(clear_source(decs, Head(ids)), Tail(ids))

ClearAll ==
    /\ ops < limit
    /\ LET ids == InOrder(monitor_widgets)
       IN /\ decoders' = clear_source_each(decoders, ids)
          /\ dispatched' = [i \in DOMAIN ids |-> ClearCropTask(ids[i])]
    /\ Touch(TRUE, "Limpar tudo?", NoDialog)
    /\ UNCHANGED <<encoders, presets, grid_rows, grid_cols, monitor_widgets,
                   selected_monitors, limit, geom, avcit, matrices, background>>

\* configure_crop_selected.on_crop_applied: set_crop on every selected monitor,
\* one set_crop thread each when a crop is given.
RECURSIVE set_crop_each(_, _, _)
set_crop_each(decs, mons, crop) ==
    IF mons = <<>> THEN decs
    ELSE set_crop_each(set_crop(decs, Head(mons).decoder, crop), Tail(mons), crop)

SelectedSources ==
    {decoders[selected_monitors[i].decoder].current_source :
        i \in DOMAIN selected_monitors} \ {NoSource}

\* configure_crop_selected, then CropSelectorDialog.apply_crop.
ConfigureCropApply(in) ==
    /\ ops < limit
    /\ selected_monitors # <<>>
    /\ Cardinality(SelectedSources) = 1
    /\ LET encoder == encoders[CHOOSE e \in SelectedSources : TRUE]
           crop == CropRegion(in[1], in[2], in[3], in[4],
                              encoder.width, encoder.height, TRUE)
       IN IF validate(crop, encoder.width, encoder.height)
          THEN /\ decoders' = set_crop_each(decoders, selected_monitors, crop)
               /\ dispatched' = [i \in DOMAIN selected_monitors |->
                                    SetCropTask(selected_monitors[i].decoder, crop)]
               /\ selected_monitors' = <<>>
               /\ Touch(TRUE, NoMessage, CropDialog("configure_crop_selected", in))
          ELSE /\ UNCHANGED <<decoders, selected_monitors>>
               /\ dispatched' = <<>>
               /\ Touch(FALSE, "Valores invalidos", CropDialog("configure_crop_selected", in))
    /\ UNCHANGED <<encoders, presets, grid_rows, grid_cols, monitor_widgets, limit, geom, avcit, matrices, background>>

\* configure_crop_selected, then CropSelectorDialog.clear_crop: no thread.
ConfigureCropClear ==
    /\ ops < limit
    /\ selected_monitors # <<>>
    /\ Cardinality(SelectedSources) = 1
    /\ decoders' = set_crop_each(decoders, selected_monitors, None)
    /\ dispatched' = <<>>
    /\ selected_monitors' = <<>>
    /\ Touch(TRUE, NoMessage, NoDialog)
    /\ UNCHANGED <<encoders, presets, grid_rows, grid_cols, monitor_widgets, limit, geom, avcit, matrices, background>>

\* A variant of the loop that, without auto-crop, clears the crop of each
\* monitor it switches.
RECURSIVE apply_clearing(_, _, _, _, _, _, _)
apply_clearing(decs, sorted_monitors, i, rows, cols, encoder, auto_crop) ==
    IF i >= Len(sorted_monitors) THEN decs
    ELSE LET d == sorted_monitors[i + 1].decoder
             sourced == set_source(decs, d, encoder)
             crop == tile(i, rows, cols, encoder.width, encoder.height)
         IN apply_clearing(set_crop(sourced, d, IF auto_crop THEN crop ELSE None),
                           sorted_monitors, i + 1, rows, cols, encoder, auto_crop)

\* _apply_matrix.apply, the loop over enumerate(sorted_monitors) from index i.
RECURSIVE apply(_, _, _, _, _, _, _)
apply(decs, sorted_monitors, i, rows, cols, encoder, auto_crop) ==
    IF i >= Len(sorted_monitors) THEN decs
    ELSE LET d == sorted_monitors[i + 1].decoder
             sourced == set_source(decs, d, encoder)
             crop == tile(i, rows, cols, encoder.width, encoder.height)
         IN apply(IF auto_crop THEN set_crop(sourced, d, crop) ELSE sourced,
                  sorted_monitors, i + 1, rows, cols, encoder, auto_crop)

\* The thread apply starts for the i-th sorted monitor.
apply_task(sorted_monitors, i, rows, cols, encoder, auto_crop) ==
    IF auto_crop
    THEN MatrixTask(sorted_monitors[i + 1].decoder, encoder.id,
                    tile(i, rows, cols, encoder.width, encoder.height))
    ELSE SwitchTask(sorted_monitors[i + 1].decoder, encoder.id)

\* A variant that warns of the mismatch and still switches the first selected
\* monitor.
CreateMatrixPartial(rows, cols) ==
    /\ ops < limit
    /\ Len(selected_monitors) >= 2
    /\ Len(selected_monitors) # rows * cols
    /\ \E e \in EncoderIds :
          /\ decoders' = set_source(decoders, selected_monitors[1].decoder, encoders[e])
          /\ dispatched' = <<SwitchTask(selected_monitors[1].decoder, e)>>
    /\ Touch(TRUE, "Selecione exatamente",
             MatrixDialog(rows, cols, FALSE, NoSource, selected_monitors))
    /\ UNCHANGED <<encoders, presets, grid_rows, grid_cols,
                   monitor_widgets, selected_monitors, limit, geom, avcit, matrices, background>>

\* create_matrix, MatrixSelector.on_ok and _apply_matrix with a selection whose
\* length is not rows * cols: the warning, and nothing else.
CreateMatrixMismatch(rows, cols) ==
    /\ ops < limit
    /\ Len(selected_monitors) >= 2
    /\ Len(selected_monitors) # rows * cols
    /\ dispatched' = <<>>
    /\ Touch(FALSE, "Selecione exatamente",
             MatrixDialog(rows, cols, FALSE, NoSource, selected_monitors))
    /\ UNCHANGED <<encoders, decoders, presets, grid_rows, grid_cols,
                   monitor_widgets, selected_monitors, limit, geom, avcit, matrices, background>>

\* create_matrix, MatrixSelector.on_ok, _apply_matrix and apply with the
\* encoder picked in the source dialog.
CreateMatrix(rows, cols, auto_crop, e) ==
    /\ ops < limit
    /\ Len(selected_monitors) >= 2
    /\ Len(selected_monitors) = rows * cols
    /\ LET sorted_monitors == SortByPosition(decoders, selected_monitors)
       IN /\ decoders' = apply(decoders, sorted_monitors, 0, rows, cols,
                               encoders[e], auto_crop)
          /\ dispatched' = [k \in DOMAIN sorted_monitors |->
                               apply_task(sorted_monitors, k - 1, rows, cols,
                                          encoders[e], auto_crop)]
    /\ selected_monitors' = <<>>
    /\ Touch(TRUE, "Matriz criada!",
             MatrixDialog(rows, cols, auto_crop, e, selected_monitors))
    /\ UNCHANGED <<encoders, presets, grid_rows, grid_cols, monitor_widgets,
                   limit, geom, avcit, matrices, background>>

\* save_preset, with a name given: the sources and crops of the decoders that
\* have a widget in monitor_widgets.
save_preset(decs, widgets) ==
    LET mapped == {d \in widgets : decs[d].current_source # NoSource}
        cropped == {d \in widgets : decs[d].crop # None}
    IN Preset([d \in mapped |-> decs[d].current_source],
              [d \in cropped |-> decs[d].crop])

SavePreset(p) ==
    /\ ops < limit
    /\ presets' = [presets EXCEPT ![p] = save_preset(decoders, monitor_widgets)]
    /\ dispatched' = <<>>
    /\ message' = "Preset salvo!"
    /\ dialog' = NoDialog
    /\ ops' = ops + 1
    /\ fresh' = fresh \cup {p}
    /\ UNCHANGED <<encoders, decoders, grid_rows, grid_cols, monitor_widgets,
                   selected_monitors, limit, geom, avcit, matrices, background,
                   threads>>

\* load_preset, first loop: set_source(None) and set_crop(None) on every widget.
RECURSIVE load_clear(_, _)
load_clear(decs, ids) ==
    IF ids = <<>> THEN decs
    ELSE load_clear(set_crop(set_source(decs, Head(ids), None), Head(ids), None),
                    Tail(ids))

\* load_preset, second loop: the mappings whose decoder has a widget and whose
\* encoder is known.
load_mapped(preset, widgets, encs) ==
    InOrder({d \in DOMAIN preset.mappings :
                d \in widgets /\ preset.mappings[d] \in DOMAIN encs})

RECURSIVE load_sources(_, _, _, _)
load_sources(decs, ids, preset, encs) ==
    IF ids = <<>> THEN decs
    ELSE load_sources(set_source(decs, Head(ids), encs[preset.mappings[Head(ids)]]),
                      Tail(ids), preset, encs)

\* load_preset, third loop: the crops whose decoder has a widget.
load_cropped(preset, widgets) ==
    InOrder({d \in DOMAIN preset.crops : d \in widgets})

RECURSIVE load_crops(_, _, _)
load_crops(decs, ids, preset) ==
    IF ids = <<>> THEN decs
    ELSE load_crops(set_crop(decs, Head(ids), from_dict(preset.crops[Head(ids)])),
                    Tail(ids), preset)

\* A variant that writes the preset's encoder ids to the decoders as they are.
RECURSIVE load_ids(_, _, _)
load_ids(decs, ids, preset) ==
    IF ids = <<>> THEN decs
    ELSE load_ids(update_mapping(decs, Head(ids), preset.mappings[Head(ids)]),
                  Tail(ids), preset)

load_preset_by_id(decs, preset, widgets, encs) ==
    load_crops(
        load_ids(load_clear(decs, InOrder(widgets)),
                 InOrder(DOMAIN preset.mappings), preset),
        load_cropped(preset, widgets), preset)

\* A variant that clears the wall when it already shows the preset.
load_preset_toggle(decs, preset, widgets, encs) ==
    LET shown == load_crops(
                    load_sources(load_clear(decs, InOrder(widgets)),
                                 load_mapped(preset, widgets, encs), preset, encs),
                    load_cropped(preset, widgets), preset)
    IN IF decs = shown THEN load_clear(decs, InOrder(widgets)) ELSE shown

\* load_preset: the three loops.
load_preset(decs, preset, widgets, encs) ==
    load_crops(
        load_sources(load_clear(decs, InOrder(widgets)),
                     load_mapped(preset, widgets, encs), preset, encs),
        load_cropped(preset, widgets), preset)

\* A variant that drops the preset once it is loaded.
LoadPresetOnce(p) ==
    /\ ops < limit
    /\ presets[p] # None
    /\ decoders' = load_preset(decoders, presets[p], monitor_widgets, encoders)
    /\ presets' = [presets EXCEPT ![p] = None]
    /\ dispatched' = <<>>
    /\ Touch(TRUE, "Preset carregado!", NoDialog)
    /\ UNCHANGED <<encoders, grid_rows, grid_cols, monitor_widgets,
                   selected_monitors, limit, geom, avcit, matrices, background>>

LoadPreset(p) ==
    /\ ops < limit
    /\ presets[p] # None
    /\ decoders' = load_preset(decoders, presets[p], monitor_widgets, encoders)
    /\ LET mapped == load_mapped(presets[p], monitor_widgets, encoders)
           cropped == load_cropped(presets[p], monitor_widgets)
       IN dispatched' =
            [i \in DOMAIN mapped |-> SwitchTask(mapped[i], presets[p].mappings[mapped[i]])]
            \o [i \in DOMAIN cropped |->
                   SetCropTask(cropped[i], from_dict(presets[p].crops[cropped[i]]))]
    /\ Touch(TRUE, "Preset carregado!", NoDialog)
    /\ UNCHANGED <<encoders, presets, grid_rows, grid_cols, monitor_widgets,
                   selected_monitors, limit, geom, avcit, matrices, background>>

\* change_display_mode: the grid size of the chosen mode, then
\* create_monitor_grid.  The widgets held by selected_monitors are destroyed
\* with the rest; the list itself is not cleared.
HalfUp(n) == (n + 1) \div 2

\* The size of the wall the decoders were laid out on by init_devices.
FullRows(decs) == Cardinality({decs[d].position[1] : d \in DOMAIN decs})

FullCols(decs) == Cardinality({decs[d].position[2] : d \in DOMAIN decs})

ModeRows(mode, decs) ==
    IF mode = "half_rows" THEN HalfUp(FullRows(decs)) ELSE FullRows(decs)

ModeCols(mode, decs) ==
    IF mode = "half_cols" THEN HalfUp(FullCols(decs)) ELSE FullCols(decs)

\* A variant that lays the decoders out again on the grid of the mode.
ChangeDisplayModeRelayout(mode) ==
    /\ ops < limit
    /\ grid_rows' = ModeRows(mode, decoders)
    /\ grid_cols' = ModeCols(mode, decoders)
    /\ decoders' = InitDecoders(ModeRows(mode, decoders), ModeCols(mode, decoders))
    /\ monitor_widgets' = DOMAIN decoders'
    /\ selected_monitors' = [i \in DOMAIN selected_monitors |->
                                [selected_monitors[i] EXCEPT !.live = FALSE]]
    /\ dispatched' = <<>>
    /\ Touch(FALSE, NoMessage, NoDialog)
    /\ UNCHANGED <<encoders, presets, limit, geom, avcit, matrices, background>>

ChangeDisplayMode(mode) ==
    /\ ops < limit
    /\ grid_rows' = ModeRows(mode, decoders)
    /\ grid_cols' = ModeCols(mode, decoders)
    /\ monitor_widgets' = create_monitor_grid(decoders, ModeRows(mode, decoders),
                                              ModeCols(mode, decoders))
    /\ selected_monitors' = [i \in DOMAIN selected_monitors |->
                                [selected_monitors[i] EXCEPT !.live = FALSE]]
    /\ dispatched' = <<>>
    /\ Touch(FALSE, NoMessage, NoDialog)
    /\ UNCHANGED <<encoders, decoders, presets, limit, geom, avcit, matrices, background>>

(***************************************************************************)
(* AVCITController: the texts it reads and the command log.                *)
(* A text read from a device is the sequence of its characters; a text     *)
(* the program itself makes up (a command line, a log remark, the text of  *)
(* an exception) is kept whole.                                            *)
(***************************************************************************)
LogCapacity == 200
ResponseLimit == 200

LowerCase ==
    <<"a", "b", "c", "d", "e", "f", "g", "h", "i", "j", "k", "l", "m",
      "n", "o", "p", "q", "r", "s", "t", "u", "v", "w", "x", "y", "z">>

UpperCase ==
    <<"A", "B", "C", "D", "E", "F", "G", "H", "I", "J", "K", "L", "M",
      "N", "O", "P", "Q", "R", "S", "T", "U", "V", "W", "X", "Y", "Z">>

\* str.upper and str.lower, letter by letter.
Capital == [c \in {LowerCase[n] : n \in DOMAIN LowerCase} |->
               UpperCase[CHOOSE n \in DOMAIN LowerCase : LowerCase[n] = c]]

Small == [c \in {UpperCase[n] : n \in DOMAIN UpperCase} |->
             LowerCase[CHOOSE n \in DOMAIN UpperCase : UpperCase[n] = c]]

upper(text) ==
    [k \in DOMAIN text |-> IF text[k] \in DOMAIN Capital THEN Capital[text[k]] ELSE text[k]]

lower(text) ==
    [k \in DOMAIN text |-> IF text[k] \in DOMAIN Small THEN Small[text[k]] ELSE text[k]]

\* word in text
contains(word, text) ==
    \E k \in 0 .. Len(text) - Len(word) : SubSeq(text, k + 1, k + Len(word)) = word

\* str.strip
strip(text) ==
    LET inked == {k \in DOMAIN text : text[k] # " "}
    IN IF inked = {} THEN <<>>
       ELSE SubSeq(text, CHOOSE k \in inked : \A j \in inked : k <= j,
                         CHOOSE k \in inked : \A j \in inked : k >= j)

\* text[:n]
truncate(text, n) == SubSeq(text, 1, IF Len(text) < n THEN Len(text) ELSE n)

\* The words telnet_login, switch_source_auth and set_crop_auth look for.
incorrect == <<"i", "n", "c", "o", "r", "r", "e", "c", "t">>
failed == <<"f", "a", "i", "l", "e", "d">>
denied == <<"d", "e", "n", "i", "e", "d">>
OK == <<"O", "K">>
SUCCESS == <<"S", "U", "C", "C", "E", "S", "S">>
DONE == <<"D", "O", "N", "E">>
ACCEPTED == <<"A", "C", "C", "E", "P", "T", "E", "D">>

\* The remarks and exception texts the controller logs and returns.
Autenticado == <<"Autenticado">>
CredenciaisIncorretas == <<"Credenciais incorretas">>
ConnectionRefused == <<"[Errno 111] Connection refused">>
ConnectionClosed == <<"telnet connection closed">>
BrokenPipe == <<"[Errno 32] Broken pipe">>
NenhumComando == <<"Nenhum comando funcionou">>
NenhumComandoDeCrop == <<"Nenhum comando de crop funcionou">>
NenhumaCredencial == <<"Nenhuma credencial padrao funcionou">>

NoCommand == "none"

\* A variant that drops the new entry when the log is full.
log_command_keeps_oldest(log, target_ip, command, success, response) ==
    IF Len(log) >= LogCapacity THEN log
    ELSE Append(log, [target |-> target_ip, command |-> command,
                      success |-> success, response |-> response])

\* AVCITController.log_command; the timestamp of an entry is left out.
log_command(log, target_ip, command, success, response) ==
    LET appended == Append(log, [target |-> target_ip, command |-> command,
                                 success |-> success, response |-> response])
    IN IF Len(appended) > LogCapacity THEN Tail(appended) ELSE appended

DEFAULT_CREDENTIALS ==
    <<(<<"admin", "admin">>), (<<"admin", "">>), (<<"root", "root">>),
      (<<"root", "">>), (<<"admin", "123456">>), (<<"admin", "password">>),
      (<<"user", "user">>), (<<"guest", "guest">>)>>

(***************************************************************************)
(* The device at the other end.  It refuses the Telnet connection, or      *)
(* takes it and never sends a prompt, or takes it and prompts for login    *)
(* and password; it may also serve some of the candidate paths of an HTTP  *)
(* control port, numbered in the order a resolver would try them.          *)
(***************************************************************************)
Device(session, http) == [session |-> session, http |-> http]

Offline == Device("refuses", {})

Devices ==
    {Offline, Device("refuses", {3}), Device("silent", {}), Device("prompts", {})}

LoginPrompt == <<"l", "o", "g", "i", "n", ":", " ">>
PasswordPrompt == <<"P", "a", "s", "s", "w", "o", "r", "d", ":", " ">>

\* What the device says after the password.
Banners ==
    {<<"W", "e", "l", "c", "o", "m", "e">>,
     <<"L", "o", "g", "i", "n", " ", "i", "n", "c", "o", "r", "r", "e", "c", "t">>,
     <<"A", "u", "t", "h", " ", "F", "A", "I", "L", "E", "D">>,
     <<"A", "c", "c", "e", "s", "s", " ", "D", "e", "n", "i", "e", "d">>}

\* What happens to one login: the connection is refused, or it is taken and
\* lost before the password prompt, or it is taken and the device answers
\* (nothing at all, when it is a device that never prompts).
LoginOutcome(event, banner) == [event |-> event, banner |-> banner]

LoginOutcomes(dev) ==
    IF dev.session = "refuses" THEN {LoginOutcome("refused", <<>>)}
    ELSE IF dev.session = "silent"
    THEN {LoginOutcome("lost", <<>>), LoginOutcome("served", <<>>)}
    ELSE {LoginOutcome("lost", <<>>)} \cup
         {LoginOutcome("served", banner) : banner \in Banners}

\* What the device answers to a command.
ReplyOk == <<"O", "K", " ">>
ReplyUnknown == <<"U", "n", "k", "n", "o", "w", "n", " ", "c", "o", "m", "m", "a", "n", "d">>
ReplyDone == <<"d", "o", "n", "e">>
ReplyToken == <<"I", "n", "v", "a", "l", "i", "d", " ", "t", "o", "k", "e", "n">>
ReplyLong == [k \in 1 .. ResponseLimit + 1 |-> "."] \o OK

Replies == {ReplyOk, ReplyUnknown, ReplyDone, ReplyToken, ReplyLong}

\* A line written to the session, during login or after it.
Line(phase, text) == [phase |-> phase, text |-> text]

\* AVCITController.telnet_login on a device dev to which log entries log and
\* lines sent went before, with what happens to this login: the session (or
\* none), the response, the log and the lines after it.
telnet_login_lenient(log, sent, ip, user, pass, dev, out) ==
    LET response == (IF dev.session = "prompts" THEN LoginPrompt \o PasswordPrompt
                     ELSE <<>>) \o out.banner
        lines == sent \o <<Line("login", user), Line("login", pass)>>
    IN IF out.event = "refused"
       THEN [tn |-> FALSE, session |-> "none", response |-> ConnectionRefused,
             failure |-> 1,
             log |-> log_command(log, ip, "LOGIN " \o user, FALSE, ConnectionRefused),
             wire |-> sent]
       ELSE IF out.event = "lost"
       THEN [tn |-> FALSE, session |-> "lost", response |-> ConnectionClosed,
             failure |-> 1,
             log |-> log_command(log, ip, "LOGIN " \o user, FALSE, ConnectionClosed),
             wire |-> sent \o <<Line("login", user)>>]
       ELSE IF contains(incorrect, lower(response)) \/ contains(failed, lower(response))
       THEN [tn |-> FALSE, session |-> "closed", response |-> response,
             failure |-> 0,
             log |-> log_command(log, ip, "LOGIN " \o user, FALSE, CredenciaisIncorretas),
             wire |-> lines]
       ELSE [tn |-> TRUE, session |-> "open", response |-> response,
             failure |-> 0,
             log |-> log_command(log, ip, "LOGIN " \o user, TRUE, Autenticado),
             wire |-> lines]

telnet_login(log, sent, ip, user, pass, dev, out) ==
    LET response == (IF dev.session = "prompts" THEN LoginPrompt \o PasswordPrompt
                     ELSE <<>>) \o out.banner
        lines == sent \o <<Line("login", user), Line("login", pass)>>
    IN IF out.event = "refused"
       THEN [tn |-> FALSE, session |-> "none", response |-> ConnectionRefused,
             failure |-> 1,
             log |-> log_command(log, ip, "LOGIN " \o user, FALSE, ConnectionRefused),
             wire |-> sent]
       ELSE IF out.event = "lost"
       THEN [tn |-> FALSE, session |-> "lost", response |-> ConnectionClosed,
             failure |-> 1,
             log |-> log_command(log, ip, "LOGIN " \o user, FALSE, ConnectionClosed),
             wire |-> sent \o <<Line("login", user)>>]
       ELSE IF \/ contains(incorrect, lower(response))
               \/ contains(failed, lower(response))
               \/ contains(denied, lower(response))
       THEN [tn |-> FALSE, session |-> "closed", response |-> response,
             failure |-> 0,
             log |-> log_command(log, ip, "LOGIN " \o user, FALSE, CredenciaisIncorretas),
             wire |-> lines]
       ELSE [tn |-> TRUE, session |-> "open", response |-> response,
             failure |-> 0,
             log |-> log_command(log, ip, "LOGIN " \o user, TRUE, Autenticado),
             wire |-> lines]

\* The candidate commands of switch_source_auth, set_crop_auth and clear_crop,
\* in the order they are tried.
switch_commands(encoder_ip) ==
    <<"switch " \o encoder_ip, "SWITCH " \o encoder_ip,
      "set source " \o encoder_ip, "source " \o encoder_ip,
      "connect " \o encoder_ip, "play rtsp://" \o encoder_ip \o ":551/2160",
      "url rtsp://" \o encoder_ip \o ":551/2160", "stream " \o encoder_ip,
      "input " \o encoder_ip, "route " \o encoder_ip, "link " \o encoder_ip>>

crop_commands(crop) ==
    LET spaced == ToString(crop.x) \o " " \o ToString(crop.y) \o " " \o
                  ToString(crop.width) \o " " \o ToString(crop.height)
        commas == ToString(crop.x) \o "," \o ToString(crop.y) \o "," \o
                  ToString(crop.width) \o "," \o ToString(crop.height)
    IN <<"crop " \o spaced, "window " \o spaced, "set crop " \o commas,
         "region " \o spaced, "zoom " \o spaced>>

clear_commands ==
    <<"crop reset", "window reset", "zoom reset", "fullscreen", "crop 0 0 1920 1080">>

\* The test switch_source_auth makes of a response, and the one of
\* set_crop_auth.
switch_accepts(response) ==
    \E word \in {OK, SUCCESS, DONE, ACCEPTED} : contains(word, upper(response))

crop_accepts(response) ==
    contains(OK, upper(response)) \/ contains(SUCCESS, upper(response))

accepts(intent, response) ==
    IF intent = "switch_source" THEN switch_accepts(response) ELSE crop_accepts(response)

\* What a call returns: success, the command that did it and the response.
Result(success, cmd, response) ==
    [success |-> success, cmd |-> cmd, response |-> response]

\* What try_default_credentials returns: the response and the pair that
\* logged in.
Credentials(success, response, user, pass) ==
    [success |-> success, cmd |-> NoCommand, response |-> response,
     username |-> user, password |-> pass]

\* The call of the controller in progress: the method, where it is, the
\* candidate (or the credentials) it is at and, as history, the logins it
\* made, the replies it read and the network failures it met.
Call(intent, pc, target, commands) ==
    [intent |-> intent, pc |-> pc, target |-> target, commands |-> commands,
     i |-> 1, logins |-> <<>>, login_response |-> <<>>, replies |-> <<>>,
     failures |-> 0, result |-> Result(FALSE, NoCommand, <<>>)]

NoCall == Call("none", "idle", 0, <<>>)

SessionIntents == {"switch_source", "set_crop", "clear_crop"}

\* AVCITController.__init__, and no call made yet.
AVCIT ==
    /\ command_log = <<>>
    /\ username = "admin"
    /\ password = "admin"
    /\ tn = "none"
    /\ wire = <<>>
    /\ call = NoCall

\* The decoder whose device the calls are made to, and the crops sent.
Targets == {1}

SentCrops == {CropRegion(960, 0, 960, 540, FrameWidth, FrameHeight, TRUE)}

\* switch_source, set_crop, clear_crop, try_default_credentials: the call is
\* made.
SwitchSource(d, e) ==
    /\ call.pc = "idle"
    /\ call' = Call("switch_source", "login", d, switch_commands(e))
    /\ UNCHANGED <<store, command_log, username, password, tn, wire, device>>

SetCrop(d, crop) ==
    /\ call.pc = "idle"
    /\ call' = Call("set_crop", "login", d, crop_commands(crop))
    /\ UNCHANGED <<store, command_log, username, password, tn, wire, device>>

ClearCrop(d) ==
    /\ call.pc = "idle"
    /\ call' = Call("clear_crop", "login", d, clear_commands)
    /\ UNCHANGED <<store, command_log, username, password, tn, wire, device>>

TryDefaultCredentials(d) ==
    /\ call.pc = "idle"
    /\ call' = Call("try_default_credentials", "login", d, <<>>)
    /\ UNCHANGED <<store, command_log, username, password, tn, wire, device>>

\* The login of switch_source_auth, set_crop_auth and clear_crop with the
\* configured credentials, and the return when it gives no session.
Login ==
    /\ call.pc = "login"
    /\ call.intent \in SessionIntents
    /\ \E out \in LoginOutcomes(device) :
          LET r == telnet_login(command_log, wire, call.target, username,
                                password, device, out)
              made == [call EXCEPT !.logins = Append(@, <<username, password, r.tn>>),
                                   !.login_response = r.response,
                                   !.failures = @ + r.failure]
          IN /\ command_log' = r.log
             /\ wire' = r.wire
             /\ tn' = r.session
             /\ call' = IF r.tn THEN [made EXCEPT !.pc = "write"]
                        ELSE [made EXCEPT !.pc = "done",
                                          !.result =
                                             IF call.intent = "clear_crop"
                                             THEN Result(FALSE, NoCommand, <<>>)
                                             ELSE Result(FALSE, "LOGIN", r.response)]
    /\ UNCHANGED <<store, username, password, device>>

\* The loop of try_default_credentials after the login with pair i of n:
\* the pair to try next, or 0 to return.
try_every(i, logged_in, n) == IF i < n THEN i + 1 ELSE 0

try_next(i, logged_in, n) ==
    IF logged_in THEN 0 ELSE IF i < n THEN i + 1 ELSE 0

\* One turn of the loop of try_default_credentials.
TryDefaultLogin ==
    /\ call.pc = "login"
    /\ call.intent = "try_default_credentials"
    /\ \E out \in LoginOutcomes(device) :
          LET pair == DEFAULT_CREDENTIALS[call.i]
              r == telnet_login(command_log, wire, call.target, pair[1], pair[2],
                                device, out)
              next == try_next(call.i, r.tn, Len(DEFAULT_CREDENTIALS))
              made == [call EXCEPT !.logins = Append(@, <<pair[1], pair[2], r.tn>>),
                                   !.login_response = r.response,
                                   !.failures = @ + r.failure]
          IN /\ command_log' = r.log
             /\ wire' = r.wire
             /\ tn' = r.session
             /\ username' = IF r.tn THEN pair[1] ELSE username
             /\ password' = IF r.tn THEN pair[2] ELSE password
             /\ call' = IF next # 0 THEN [made EXCEPT !.i = next]
                        ELSE [made EXCEPT !.pc = "done",
                                          !.result =
                                             IF r.tn
                                             THEN Credentials(TRUE, r.response,
                                                              pair[1], pair[2])
                                             ELSE Credentials(FALSE, NenhumaCredencial,
                                                              NoCommand, NoCommand)]
    /\ UNCHANGED <<store, device>>

\* tn.write of candidate i.  The write raises when the connection is gone,
\* and the call returns from its handler; clear_crop reads nothing and goes
\* on to the next candidate, and closes and returns after the last.
WriteCandidate ==
    /\ call.pc = "write"
    /\ \E written \in BOOLEAN :
          IF ~written
          THEN /\ call' = [call EXCEPT !.pc = "done", !.failures = @ + 1,
                                       !.result = Result(FALSE, NoCommand,
                                                         IF call.intent = "clear_crop"
                                                         THEN <<>> ELSE BrokenPipe)]
               /\ tn' = "lost"
               /\ wire' = wire
          ELSE /\ wire' = Append(wire, Line("command", call.commands[call.i]))
               /\ IF call.intent # "clear_crop"
                  THEN /\ call' = [call EXCEPT !.pc = "read"]
                       /\ tn' = tn
                  ELSE IF call.i < Len(call.commands)
                  THEN /\ call' = [call EXCEPT !.i = @ + 1]
                       /\ tn' = tn
                  ELSE /\ call' = [call EXCEPT !.pc = "done",
                                               !.result = Result(TRUE, NoCommand, <<>>)]
                       /\ tn' = "closed"
    /\ UNCHANGED <<store, command_log, username, password, device>>

\* tn.read_very_eager after candidate i of switch_source_auth or
\* set_crop_auth.  A read that raises is passed over; a response is logged,
\* and ends the call when it is accepted; after the last candidate the
\* session is closed and the call fails.
ReadResponse ==
    /\ call.pc = "read"
    /\ \E reply \in Replies \cup {ConnectionClosed} :
          LET cmd == call.commands[call.i]
              raised == reply = ConnectionClosed
              heard == [call EXCEPT !.replies = Append(@, reply),
                                    !.failures = @ + (IF raised THEN 1 ELSE 0)]
          IN /\ command_log' =
                    IF raised THEN command_log
                    ELSE log_command(command_log, call.target, cmd, TRUE,
                                     truncate(strip(reply), ResponseLimit))
             /\ IF ~raised /\ accepts(call.intent, reply)
                THEN /\ call' = [heard EXCEPT !.pc = "done",
                                              !.result = Result(TRUE, cmd, reply)]
                     /\ tn' = "closed"
                ELSE IF call.i < Len(call.commands)
                THEN /\ call' = [heard EXCEPT !.pc = "write", !.i = @ + 1]
                     /\ tn' = tn
                ELSE /\ call' = [heard EXCEPT
                                    !.pc = "done",
                                    !.result =
                                       Result(FALSE, NoCommand,
                                              IF call.intent = "switch_source"
                                              THEN NenhumComando
                                              ELSE NenhumComandoDeCrop)]
                     /\ tn' = "closed"
    /\ UNCHANGED <<store, username, password, wire, device>>

\* ping_device: the connect succeeds, or fails with an error code, or raises.
PingDevice(d) ==
    /\ call.pc = "idle"
    /\ \E raised \in BOOLEAN :
          LET online == device.session # "refuses" /\ ~raised
          IN call' = [Call("ping_device", "done", d, <<>>) EXCEPT
                         !.failures = IF online THEN 0 ELSE 1,
                         !.result = Result(online, NoCommand, <<>>)]
    /\ UNCHANGED <<store, command_log, username, password, tn, wire, device>>

(***************************************************************************)
(* The daemon threads: _send_switch_command, _send_matrix_commands, and    *)
(* avcit.set_crop / avcit.clear_crop started directly by a handler.        *)
(***************************************************************************)
\* What a decoder's device shows, and the thread that made it so (0: none).
Untouched == [source |-> NoSource, source_by |-> 0, crop |-> None, crop_by |-> 0]

\* How switch_source ends: a candidate command was accepted, none was, the
\* login was rejected, the connection failed, or a write raised.
Exchanges == {"accepted", "NoDialectAccepted", "login failure",
              "connect failure", "raised"}

\* A variant that reads the decoder's current source when the thread runs.
current_source_sent(thread, decs) == decs[thread.task.decoder].current_source

\* The encoder a thread switches its decoder to: args=(monitor.decoder,
\* encoder), bound when the thread is started.
sent_source(thread, decs) == thread.task.encoder

\* avcit.switch_source(decoder.ip, decoder.port, encoder.ip, encoder.port)
RunSwitchSource(k) ==
    LET thread == threads[k]
        d == thread.task.decoder
    IN  /\ thread.pc = "switch_source"
        /\ \E outcome \in Exchanges :
              /\ applied' = IF outcome = "accepted"
                            THEN [applied EXCEPT
                                     ![d].source = sent_source(thread, decoders),
                                     ![d].source_by = k]
                            ELSE applied
              /\ threads' = [threads EXCEPT
                    ![k].outcome = outcome,
                    ![k].pc = IF outcome = "raised" THEN "done"
                              ELSE IF thread.task.target = "_send_switch_command"
                              THEN "crop_test"
                              ELSE "set_crop"]

\* A variant that sends again the crop the device last took.
RunCropTestDevice(k) ==
    LET thread == threads[k]
        crop == applied[thread.task.decoder].crop
    IN  /\ thread.pc = "crop_test"
        /\ threads' = IF crop # None /\ crop.enabled
                      THEN [threads EXCEPT ![k].pc = "set_crop",
                                           ![k].task.crop = crop]
                      ELSE [threads EXCEPT ![k].pc = "done"]
        /\ UNCHANGED applied

\* _send_switch_command: if decoder.crop and decoder.crop.get('enabled'),
\* read from the store when the switch has returned.
RunCropTest(k) ==
    LET thread == threads[k]
        crop == get_crop_region(decoders[thread.task.decoder])
    IN  /\ thread.pc = "crop_test"
        /\ threads' = IF crop # None /\ crop.enabled
                      THEN [threads EXCEPT ![k].pc = "set_crop",
                                           ![k].task.crop = crop]
                      ELSE [threads EXCEPT ![k].pc = "done"]
        /\ UNCHANGED applied

\* avcit.set_crop(decoder.ip, decoder.port, crop)
RunSetCrop(k) ==
    LET thread == threads[k]
        d == thread.task.decoder
    IN  /\ thread.pc = "set_crop"
        /\ \E accepted \in BOOLEAN :
              applied' = IF accepted
                         THEN [applied EXCEPT ![d].crop = thread.task.crop,
                                              ![d].crop_by = k]
                         ELSE applied
        /\ threads' = [threads EXCEPT ![k].pc = "done"]

\* avcit.clear_crop(decoder.ip, decoder.port)
RunClearCrop(k) ==
    LET thread == threads[k]
        d == thread.task.decoder
    IN  /\ thread.pc = "clear_crop"
        /\ \E accepted \in BOOLEAN :
              applied' = IF accepted
                         THEN [applied EXCEPT ![d].crop = None, ![d].crop_by = k]
                         ELSE applied
        /\ threads' = [threads EXCEPT ![k].pc = "done"]

\* One step of a started thread; a thread writes nothing to the store.
RunThread(k) ==
    /\ \/ RunSwitchSource(k)
       \/ RunCropTest(k)
       \/ RunSetCrop(k)
       \/ RunClearCrop(k)
    /\ UNCHANGED <<encoders, decoders, presets, grid_rows, grid_cols,
                   monitor_widgets, selected_monitors, dispatched, message,
                   dialog, fresh, ops, limit, geom, avcit, matrices, monitoring,
                   monitor, pool, loggers>>

(***************************************************************************)
(* The threads inside log_command.  list.append, len and list.pop are each *)
(* one step; a thread can be switched out between them.                    *)
(***************************************************************************)
\* No thread is inside log_command, and nothing has been appended.
NoLoggers == [pcs |-> <<>>, appended |-> 0]

\* The n-th entry appended to the log.
Entry(n) ==
    [target |-> 1, command |-> "CMD " \o ToString(n), success |-> TRUE,
     response |-> OK]

\* A log_command call made with no other call in progress.
LogCommand ==
    /\ loggers.appended < LogCapacity + MaxExtra
    /\ LET e == Entry(loggers.appended + 1)
       IN command_log' = log_command(command_log, e.target, e.command, e.success,
                                     e.response)
    /\ loggers' = [loggers EXCEPT !.appended = @ + 1]
    /\ UNCHANGED <<store_but_loggers, username, password, tn, wire, call, device>>

\* self.command_log.append({...})
LogAppend(t) ==
    /\ loggers.pcs[t].pc = "append"
    /\ loggers.pcs[t].calls < MaxCalls
    /\ command_log' = Append(command_log, Entry(loggers.appended + 1))
    /\ loggers' = [loggers EXCEPT !.appended = @ + 1,
                                  !.pcs[t].pc = "len",
                                  !.pcs[t].calls = @ + 1]
    /\ UNCHANGED <<store_but_loggers, username, password, tn, wire, call, device>>

\* if len(self.command_log) > 200:
LogTest(t) ==
    /\ loggers.pcs[t].pc = "len"
    /\ loggers' = [loggers EXCEPT !.pcs[t].pc =
                      IF Len(command_log) > LogCapacity THEN "pop" ELSE "append"]
    /\ UNCHANGED <<store_but_loggers, avcit>>

\* self.command_log.pop(0), which raises IndexError on an empty list.
LogPop(t) ==
    /\ loggers.pcs[t].pc = "pop"
    /\ IF command_log # <<>>
       THEN /\ command_log' = Tail(command_log)
            /\ loggers' = [loggers EXCEPT !.pcs[t].pc = "append"]
       ELSE /\ UNCHANGED command_log
            /\ loggers' = [loggers EXCEPT !.pcs[t].pc = "raised"]
    /\ UNCHANGED <<store_but_loggers, username, password, tn, wire, call, device>>

\* CommandLogDialog.clear_log: self.avcit.command_log.clear()
clear_log ==
    /\ command_log' = <<>>
    /\ UNCHANGED <<store, username, password, tn, wire, call, device>>

(***************************************************************************)
(* The monitor thread: monitor_devices, started by __init__, and the sweep *)
(* _refresh_status_thread it runs after every sleep.                       *)
(***************************************************************************)
\* socket.connect_ex returns 0, returns an error code, or the socket raises.
Connects == {"connected", "errno", "raised"}

\* ping_device: result == 0, and False from the bare except.
ping_device(connect) == connect = "connected"

\* A variant that reports every device online.
check_device_status_stale(connect) == "online"

\* check_device_status
check_device_status(connect) ==
    IF ping_device(connect) THEN "online" ELSE "offline"

\* The devices in the order of a sweep: encoders.values(), then
\* decoders.values(), both in insertion order.
SweepLength == NumEncoders + Cardinality(DOMAIN decoders)

IsEncoder(i) == i <= NumEncoders

SweptEncoder(i) == "enc_" \o ToString(i)

SweptDecoder(i) == i - NumEncoders

\* The monitor thread at the loop test, before its first sleep.
Waiting == [pc |-> "test", i |-> 0, results |-> <<>>, last |-> "none"]

\* A variant in which a sweep that raises ends the thread.
stop_on_error(raised) == IF raised THEN "exited" ELSE "test"

\* monitor_devices when the sweep has returned or raised: try/except/pass,
\* and back to the test of the while loop.
after_sweep(raised) == "test"

\* while self.monitoring:
LoopTest ==
    /\ monitor.pc = "test"
    /\ monitor' = [monitor EXCEPT !.pc = IF monitoring THEN "sleep" ELSE "exited"]
    /\ UNCHANGED <<encoders, decoders, presets, grid_rows, grid_cols,
                   monitor_widgets, selected_monitors, dispatched, message,
                   dialog, fresh, ops, limit, geom, avcit, matrices, monitoring,
                   threads, pool, applied, loggers>>

\* time.sleep(30) returns and _refresh_status_thread is entered.
Wake ==
    /\ monitor.pc = "sleep"
    /\ monitor' = [monitor EXCEPT !.pc = "sweep", !.i = 1, !.results = <<>>]
    /\ UNCHANGED <<encoders, decoders, presets, grid_rows, grid_cols,
                   monitor_widgets, selected_monitors, dispatched, message,
                   dialog, fresh, ops, limit, geom, avcit, matrices, monitoring,
                   threads, pool, applied, loggers>>

\* A variant of the turn that, with the status of a decoder, writes back a
\* decoder without its crop.
ProbeClearing ==
    /\ monitor.pc = "sweep"
    /\ \E connect \in Connects, raised \in BOOLEAN :
          LET i == monitor.i
              status == check_device_status(connect)
              scheduled == IsEncoder(i) \/ SweptDecoder(i) \in monitor_widgets
              aborted == scheduled /\ raised
          IN  /\ ~scheduled => ~raised
              /\ encoders' = IF IsEncoder(i)
                             THEN [encoders EXCEPT ![SweptEncoder(i)].status = status]
                             ELSE encoders
              /\ decoders' = IF IsEncoder(i) THEN decoders
                             ELSE [decoders EXCEPT ![SweptDecoder(i)].status = status,
                                                   ![SweptDecoder(i)].crop = None]
              /\ monitor' = [monitor EXCEPT
                    !.results = Append(@, ping_device(connect)),
                    !.i = i + 1,
                    !.pc = IF aborted THEN after_sweep(TRUE)
                           ELSE IF i = SweepLength THEN after_sweep(FALSE)
                           ELSE "sweep",
                    !.last = IF aborted THEN "raised"
                             ELSE IF i = SweepLength THEN "returned" ELSE @]
    /\ UNCHANGED <<presets, grid_rows, grid_cols, monitor_widgets,
                   selected_monitors, dispatched, message, dialog, fresh, ops,
                   limit, geom, avcit, matrices, monitoring, threads, pool,
                   applied, loggers>>

\* One turn of the loops of _refresh_status_thread: the probe, the status,
\* and root.after, a Tk call made outside the main thread, which can raise.
Probe ==
    /\ monitor.pc = "sweep"
    /\ \E connect \in Connects, raised \in BOOLEAN :
          LET i == monitor.i
              status == check_device_status(connect)
              scheduled == IsEncoder(i) \/ SweptDecoder(i) \in monitor_widgets
              aborted == scheduled /\ raised
          IN  /\ ~scheduled => ~raised
              /\ encoders' = IF IsEncoder(i)
                             THEN [encoders EXCEPT ![SweptEncoder(i)].status = status]
                             ELSE encoders
              /\ decoders' = IF IsEncoder(i) THEN decoders
                             ELSE [decoders EXCEPT ![SweptDecoder(i)].status = status]
              /\ monitor' = [monitor EXCEPT
                    !.results = Append(@, ping_device(connect)),
                    !.i = i + 1,
                    !.pc = IF aborted THEN after_sweep(TRUE)
                           ELSE IF i = SweepLength THEN after_sweep(FALSE)
                           ELSE "sweep",
                    !.last = IF aborted THEN "raised"
                             ELSE IF i = SweepLength THEN "returned" ELSE @]
    /\ UNCHANGED <<presets, grid_rows, grid_cols, monitor_widgets,
                   selected_monitors, dispatched, message, dialog, fresh, ops,
                   limit, geom, avcit, matrices, monitoring, threads, pool,
                   applied, loggers>>

\* on_close: monitoring = False, save_config, root.destroy.
on_close ==
    /\ monitoring
    /\ monitoring' = FALSE
    /\ UNCHANGED <<encoders, decoders, presets, grid_rows, grid_cols,
                   monitor_widgets, selected_monitors, dispatched, message,
                   dialog, fresh, ops, limit, geom, avcit, matrices, monitor,
                   threads, pool, applied, loggers>>

(***************************************************************************)
(* The controller after __init__, with no configuration file, on a wall of *)
(* rows x cols decoders, in a run of at most n operator actions.           *)
(***************************************************************************)
\* The selections the operator can click together on a fresh grid: every
\* sequence of distinct widgets, up to n long.
Unselected(widgets, sel) == {d \in widgets : \A i \in DOMAIN sel : sel[i].decoder # d}

RECURSIVE Selections(_, _)
Selections(widgets, n) ==
    IF n = 0 THEN {<<>>}
    ELSE LET shorter == Selections(widgets, n - 1)
         IN shorter \cup
            UNION {{Append(sel, Widget(d)) : d \in Unselected(widgets, sel)} : sel \in shorter}

\* The controller after construction on a wall of rows x cols monitors, with
\* n operator actions ahead and sel monitors clicked.
Wall(rows, cols, n, sel) ==
    /\ encoders = InitEncoders
    /\ decoders = InitDecoders(rows, cols)
    /\ grid_rows = rows
    /\ grid_cols = cols
    /\ monitor_widgets = create_monitor_grid(InitDecoders(rows, cols), rows, cols)
    /\ selected_monitors \in Selections(1 .. rows * cols, sel)
    /\ dispatched = <<>>
    /\ message = NoMessage
    /\ dialog = NoDialog
    /\ fresh = {}
    /\ ops = 0
    /\ limit = n
    /\ matrices = <<>>
    /\ monitoring = TRUE
    /\ monitor = Waiting
    /\ threads = <<>>
    /\ applied = [d \in 1 .. rows * cols |-> Untouched]

\* load_config with no configuration file: no preset.
Start(rows, cols, n, sel) ==
    /\ Wall(rows, cols, n, sel)
    /\ presets = [p \in PresetIds |-> None]

\* No daemon thread is followed, and no thread is inside log_command.
Quiet == AVCIT /\ pool = 0 /\ loggers = NoLoggers

Init == Start(StripRows, StripCols, MaxOps, 0) /\ geom = None /\ device = Offline /\ Quiet

Next ==
    \/ \E d \in DOMAIN decoders, e \in EncoderIds : EndDrag(d, e)
    \/ \E d \in DOMAIN decoders : MonitorClicked(d)
    \/ ClearSelection
    \/ \E d \in DOMAIN decoders, in \in CropInputs : CropDialogApply(d, in)
    \/ \E d \in DOMAIN decoders : CropDialogClear(d)
    \/ \E d \in DOMAIN decoders : MonitorClearCrop(d)
    \/ \E d \in DOMAIN decoders : MonitorClearSource(d)
    \/ ClearAll
    \/ \E in \in CropInputs : ConfigureCropApply(in)
    \/ ConfigureCropClear
    \/ \E shape \in OtherShapes(Len(selected_monitors)) :
          CreateMatrixMismatch(shape[1], shape[2])
    \/ \E shape \in Shapes(Len(selected_monitors)), auto_crop \in BOOLEAN,
          e \in EncoderIds : CreateMatrix(shape[1], shape[2], auto_crop, e)
    \/ \E p \in PresetIds : SavePreset(p)
    \/ \E p \in PresetIds : LoadPreset(p)
    \/ \E mode \in DisplayModes : ChangeDisplayMode(mode)

\* Every handler on a strip of monitors, within MaxOps operator actions.
Spec == Init /\ [][Next]_vars

\* Every handler on a wall of WallRows x WallCols monitors, within DeepOps
\* operator actions.
DeepInit == Start(WallRows, WallCols, DeepOps, 0) /\ geom = None /\ device = Offline /\ Quiet

DeepSpec == DeepInit /\ [][Next]_vars

\* A matrix with auto-crop made from any selection of up to MaxSelected
\* monitors.
MatrixInit == Start(WallRows, WallCols, MaxOps, MaxSelected) /\ geom = None /\ device = Offline /\ Quiet

MatrixNext ==
    \E shape \in Shapes(Len(selected_monitors)), e \in EncoderIds :
        CreateMatrix(shape[1], shape[2], TRUE, e)

MatrixSpec == MatrixInit /\ [][MatrixNext]_vars

\* A source dragged to the first monitor and a crop typed for it, the
\* monitors of the first row and the one below the first clicked, and a
\* matrix made of the selection with auto-crop or without.
Clicked == {d \in DOMAIN decoders : decoders[d].position[1] = 0 \/ decoders[d].position = <<1, 0>>}

FrameInit == Start(WallRows, WallCols, DeepOps, 0) /\ geom = None /\ device = Offline /\ Quiet

FrameNext ==
    \/ \E d \in Targets, e \in EncoderIds : EndDrag(d, e)
    \/ \E d \in Targets, in \in CropInputs : CropDialogApply(d, in)
    \/ \E d \in Clicked : MonitorClicked(d)
    \/ \E shape \in Shapes(Len(selected_monitors)), auto_crop \in BOOLEAN,
          e \in EncoderIds : CreateMatrix(shape[1], shape[2], auto_crop, e)

FrameSpec == FrameInit /\ [][FrameNext]_vars

\* The same on a wall with more columns than rows.
WideInit == Start(WideRows, WideCols, MaxOps, MaxSelected) /\ geom = None /\ device = Offline /\ Quiet

WideSpec == WideInit /\ [][MatrixNext]_vars

\* One call of the controller to a device of any kind.
SessionInit ==
    /\ Start(StripRows, StripCols, MaxOps, 0)
    /\ geom = None
    /\ device \in Devices
    /\ Quiet

SessionNext ==
    \/ \E d \in Targets, e \in EncoderIds : SwitchSource(d, e)
    \/ \E d \in Targets, crop \in SentCrops : SetCrop(d, crop)
    \/ \E d \in Targets : ClearCrop(d)
    \/ \E d \in Targets : TryDefaultCredentials(d)
    \/ \E d \in Targets : PingDevice(d)
    \/ Login
    \/ TryDefaultLogin
    \/ WriteCandidate
    \/ ReadResponse

SessionSpec == SessionInit /\ [][SessionNext]_vars

\* AVCITController.set_credentials, called by the credentials dialog with
\* what the operator typed, while a call may be under way in its thread.
TypedCredentials == {<<"noc", "videowall">>}

set_credentials(user, pass) ==
    /\ username' = user
    /\ password' = pass
    /\ UNCHANGED <<store, command_log, tn, wire, call, device>>

\* The calls of the session but the switch, and the operator setting the
\* credentials.
CredentialNext ==
    \/ \E d \in Targets, crop \in SentCrops : SetCrop(d, crop)
    \/ \E d \in Targets : ClearCrop(d)
    \/ \E d \in Targets : TryDefaultCredentials(d)
    \/ \E d \in Targets : PingDevice(d)
    \/ Login
    \/ TryDefaultLogin
    \/ WriteCandidate
    \/ ReadResponse
    \/ \E pair \in TypedCredentials : set_credentials(pair[1], pair[2])

CredentialSpec == SessionInit /\ [][CredentialNext]_vars

\* The monitor thread on the strip, and the operator closing the window.
MonitorInit ==
    /\ Start(StripRows, StripCols, MaxOps, 0)
    /\ geom = None
    /\ device = Offline
    /\ Quiet

MonitorNext ==
    \/ LoopTest
    \/ Wake
    \/ Probe
    \/ on_close

MonitorThread == LoopTest \/ Wake \/ Probe

\* The thread is scheduled, and time.sleep returns.
MonitorSpec == MonitorInit /\ [][MonitorNext]_vars /\ WF_vars(MonitorThread)

\* Sources and crops given to one monitor, and the threads they start.

TaskInit ==
    /\ Start(StripRows, StripCols, MaxOps, 0)
    /\ geom = None
    /\ device = Offline
    /\ pool = MaxThreads
    /\ AVCIT
    /\ loggers = NoLoggers

Followed == Len(threads') = Len(threads) + Len(dispatched')

TaskNext ==
    \/ \E d \in Targets, e \in EncoderIds : EndDrag(d, e) /\ Followed
    \/ \E d \in Targets, in \in CropInputs : CropDialogApply(d, in) /\ Followed
    \/ \E k \in DOMAIN threads : RunThread(k)

TaskSpec == TaskInit /\ [][TaskNext]_vars

\* The operator's actions, and the monitor thread's sweeps, each followed on
\* a store the other has not touched.
EntityInit ==
    /\ Start(StripRows, StripCols, MaxOps, 0)
    /\ geom = None
    /\ device = Offline
    /\ Quiet

Unswept == monitor = Waiting /\ monitoring

Unoperated == ops = 0

EntityNext ==
    \/ Unswept /\ Next
    \/ Unoperated /\ MonitorNext

EntitySpec == EntityInit /\ [][EntityNext]_vars

\* The operator dragging a source to the first monitor, typing its crop and
\* saving the first preset, at any moment of the monitor thread's first
\* sweep.
TypedCrops == {<<FrameWidth \div 2, FrameHeight \div 2, FrameWidth \div 2, FrameHeight \div 2>>}

FirstSweep == monitor.last = "none"

SweepNext ==
    \/ \E d \in Targets, e \in EncoderIds : EndDrag(d, e)
    \/ \E d \in Targets, in \in TypedCrops : CropDialogApply(d, in)
    \/ SavePreset(1)
    \/ LoopTest
    \/ FirstSweep /\ Wake
    \/ Probe

SweepSpec == EntityInit /\ [][SweepNext]_vars

\* load_config with a configuration file: the first preset is any preset a
\* file can hold for decoder 1 and for a decoder the wall does not have,
\* naming an encoder of the store or one it does not have.
ConfigDecoders == {1, 99}

ConfigEncoders == {"enc_1", "enc_0"}

ConfigCrops ==
    {<<>>} \cup {[d \in {c} |-> to_dict(crop)] : c \in ConfigDecoders, crop \in SentCrops}

ConfigPresets ==
    {Preset(mappings, crops) :
        mappings \in UNION {[S -> ConfigEncoders] : S \in SUBSET ConfigDecoders},
        crops \in ConfigCrops}

ConfigInit ==
    /\ Wall(StripRows, StripCols, MaxOps, 0)
    /\ \E preset \in ConfigPresets :
          presets = [p \in PresetIds |-> IF p = 1 THEN preset ELSE None]
    /\ geom = None
    /\ device = Offline
    /\ Quiet

ConfigNext ==
    \/ \E p \in PresetIds : LoadPreset(p)
    \/ \E d \in Targets, e \in EncoderIds : EndDrag(d, e)
    \/ \E mode \in DisplayModes : ChangeDisplayMode(mode)

ConfigSpec == ConfigInit /\ [][ConfigNext]_vars

\* A preset of a configuration file is loaded, the operator gives crops to
\* the monitor, and the threads they start run.
RestoreInit ==
    /\ Wall(StripRows, StripCols, MaxOps - 1, 0)
    /\ \E preset \in ConfigPresets :
          presets = [p \in PresetIds |-> IF p = 1 THEN preset ELSE None]
    /\ geom = None
    /\ device = Offline
    /\ AVCIT
    /\ loggers = NoLoggers
    /\ pool = MaxThreads + 1

RestoreNext ==
    \/ \E p \in PresetIds : LoadPreset(p) /\ Followed
    \/ \E d \in Targets, in \in CropInputs : CropDialogApply(d, in) /\ Followed
    \/ \E k \in DOMAIN threads : RunThread(k)

RestoreSpec == RestoreInit /\ [][RestoreNext]_vars

\* log_command called again and again by one thread, past the capacity.

LogInit ==
    /\ Start(StripRows, StripCols, MaxOps, 0)
    /\ geom = None
    /\ device = Offline
    /\ Quiet

LogSpec == LogInit /\ [][LogCommand]_vars

\* log_command called by several threads at once, on a log one entry short
\* of its capacity.

AppendInit ==
    /\ Start(StripRows, StripCols, MaxOps, 0)
    /\ geom = None
    /\ device = Offline
    /\ pool = 0
    /\ command_log = [n \in 1 .. LogCapacity - 1 |-> Entry(n)]
    /\ username = "admin"
    /\ password = "admin"
    /\ tn = "none"
    /\ wire = <<>>
    /\ call = NoCall
    /\ loggers = [pcs |-> [t \in 1 .. MaxAppenders |-> [pc |-> "append", calls |-> 0]],
                  appended |-> LogCapacity - 1]

AppendNext ==
    \/ \E t \in DOMAIN loggers.pcs : LogAppend(t)
    \/ \E t \in DOMAIN loggers.pcs : LogTest(t)
    \/ \E t \in DOMAIN loggers.pcs : LogPop(t)

AppendSpec == AppendInit /\ [][AppendNext]_vars

\* The same, with the operator clearing the log from the log window.
ClearNext ==
    \/ AppendNext
    \/ clear_log

ClearSpec == AppendInit /\ [][ClearNext]_vars

(***************************************************************************)
(* The tiling of _apply_matrix.apply as a function of the frame and shape. *)
(***************************************************************************)
\* Frame sides: the small ones and those of the encoders.
FrameWidths == (1 .. SmallFrame) \cup {FrameWidth}

FrameHeights == (1 .. SmallFrame) \cup {FrameHeight}

TileShapes == 1 .. MaxTiles

Geometry(width, height, rows, cols, regions) ==
    [width |-> width, height |-> height, rows |-> rows, cols |-> cols,
     regions |-> regions]

GeomInit ==
    /\ Start(StripRows, StripCols, MaxOps, 0)
    /\ geom \in {Geometry(w, h, rows, cols, <<>>) :
                    w \in FrameWidths, h \in FrameHeights,
                    rows \in TileShapes, cols \in TileShapes}
    /\ device = Offline
    /\ Quiet

\* The loop of apply with auto_crop, over rows * cols monitors: the crops in
\* the order they are made.
Tile ==
    /\ geom.regions = <<>>
    /\ geom' = [geom EXCEPT !.regions =
                   [k \in 1 .. geom.rows * geom.cols |->
                       tile(k - 1, geom.rows, geom.cols, geom.width, geom.height)]]
    /\ UNCHANGED <<encoders, decoders, presets, grid_rows, grid_cols, monitor_widgets,
                   selected_monitors, dispatched, message, dialog, fresh, ops,
                   limit, avcit, matrices, background, threads>>

GeomSpec == GeomInit /\ [][Tile]_vars

Tiled == geom.regions # <<>>

(***************************************************************************)
(* Properties of the tiling.                                               *)
(***************************************************************************)
\* C5: tiling a frame into rows x cols (both at least 1) makes exactly
\* rows * cols regions, and the region of row r and column c, the one of
\* row-major index r * cols + c, is at x = c * (width div cols),
\* y = r * (height div rows) with size (width div cols) x (height div rows);
\* the first region is at (0, 0) and the remainder of either division is
\* left out.
TilingResult ==
    Tiled =>
        /\ Len(geom.regions) = geom.rows * geom.cols
        /\ geom.regions[1].x = 0 /\ geom.regions[1].y = 0
        /\ \A r \in 0 .. geom.rows - 1, c \in 0 .. geom.cols - 1 :
              LET region == geom.regions[r * geom.cols + c + 1]
              IN /\ region.x = c * (geom.width \div geom.cols)
                 /\ region.y = r * (geom.height \div geom.rows)
                 /\ region.width = geom.width \div geom.cols
                 /\ region.height = geom.height \div geom.rows

\* A frame tiled 2 x 3 whose width is not a multiple of 3.
TilingResultSeen ==
    /\ Tiled
    /\ geom.rows = 2 /\ geom.cols = 3
    /\ geom.width % 3 # 0
    /\ geom.regions[6].x = 2 * (geom.width \div 3)

\* The invariant of a crop region within its frame.
RegionInvariant(region, width, height) ==
    /\ region.x >= 0 /\ region.y >= 0
    /\ region.width > 0 /\ region.height > 0
    /\ region.x + region.width <= width
    /\ region.y + region.height <= height

StoreMappings(decs) ==
    [d \in {x \in DOMAIN decs : decs[x].current_source # NoSource} |->
        decs[d].current_source]

StoreCrops(decs) ==
    [d \in {x \in DOMAIN decs : decs[x].crop # None} |-> decs[d].crop]

\* C1, as stated: when a preset is loaded and no handler has changed a source
\* or a crop since it was saved, every decoder of the store has afterwards
\* the source and the crop it had when the preset was saved (which is what
\* it has before the load), and a decoder that had none has none.
PresetRoundTrip ==
    [][\A p \in PresetIds :
          (p \in fresh /\ LoadPreset(p)) =>
              \A d \in DOMAIN decoders :
                  /\ decoders'[d].current_source = decoders[d].current_source
                  /\ decoders'[d].crop = decoders[d].crop]_vars

\* C2, as stated: after a preset is loaded, every decoder of the store that
\* is not a key of the preset's mappings has no source, shown in the grid or
\* not.
RestoreClearsUnmapped ==
    [][\A p \in PresetIds :
          LoadPreset(p) =>
              \A d \in DOMAIN decoders :
                  d \notin DOMAIN presets[p].mappings =>
                      decoders'[d].current_source = NoSource]_vars

\* C3, as stated: a saved preset maps exactly the decoders of the store that
\* have a source to that source, and exactly the decoders that have a crop to
\* that crop.
SnapshotCapturesStore ==
    [][\A p \in PresetIds :
          SavePreset(p) =>
              /\ presets'[p].mappings = StoreMappings(decoders)
              /\ presets'[p].crops = StoreCrops(decoders)]_vars

\* C4: the content of a saved preset changes only in a step that saves a
\* snapshot under that same preset number; no assignment, crop, clearing,
\* matrix or load changes it.
PresetImmutable ==
    [][\A p \in PresetIds : presets'[p] # presets[p] => SavePreset(p)]_vars

\* A saved preset with a mapping, after handlers that left the store with
\* other mappings than the preset holds.
PresetOutlivesStore ==
    \E p \in PresetIds :
        /\ presets[p] # None
        /\ p \notin fresh
        /\ DOMAIN presets[p].mappings # {}
        /\ presets[p].mappings # StoreMappings(decoders)

(***************************************************************************)
(* Properties of crop validation and of the matrix handlers.               *)
(***************************************************************************)
\* The six conditions of a valid region within a frame.
Accepts(in, width, height) ==
    /\ in[1] >= 0 /\ in[2] >= 0
    /\ in[3] > 0 /\ in[4] > 0
    /\ in[1] + in[3] <= width
    /\ in[2] + in[4] <= height

\* C10: the crop dialog accepts the typed region exactly when x >= 0, y >= 0,
\* width > 0, height > 0, x + width <= frame width and y + height <= frame
\* height, the full frame included; an accepted region becomes the decoder's
\* crop and one set_crop thread is started; on rejection no decoder changes
\* and no thread is started.
ValidateAcceptsExactly ==
    [][(/\ dialog'.handler = "open_crop_dialog"
        /\ CropDialogApply(dialog'.in[1], dialog'.in[2])) =>
           LET d == dialog'.in[1]
               in == dialog'.in[2]
               encoder == encoders[decoders[d].current_source]
               crop == CropRegion(in[1], in[2], in[3], in[4],
                                  encoder.width, encoder.height, TRUE)
           IN /\ in = <<0, 0, encoder.width, encoder.height>> =>
                     decoders'[d].crop = to_dict(crop)
              /\ IF Accepts(in, encoder.width, encoder.height)
                 THEN /\ decoders'[d].crop = to_dict(crop)
                      /\ dispatched' = <<SetCropTask(d, crop)>>
                      /\ message' = NoMessage
                 ELSE /\ decoders' = decoders
                      /\ dispatched' = <<>>
                      /\ message' = "Valores invalidos"]_vars

\* A region that exceeds the frame, rejected for a decoder that keeps the
\* crop it had.
RejectedCropSeen ==
    /\ dialog.handler = "open_crop_dialog"
    /\ message = "Valores invalidos"
    /\ dispatched = <<>>
    /\ dialog.in[2][1] + dialog.in[2][3] > FrameWidth
    /\ decoders[dialog.in[1]].crop # None

\* C9: a matrix of rows x cols asked for a selection of another length shows
\* the warning and does nothing else: no decoder's source or crop changes,
\* the selection stays and no thread is started.
ShapeMismatchDoesNothing ==
    [][(/\ dialog'.handler = "_apply_matrix"
        /\ Len(selected_monitors) # dialog'.rows * dialog'.cols
        /\ \/ CreateMatrixMismatch(dialog'.rows, dialog'.cols)
           \/ \E e \in EncoderIds :
                 CreateMatrix(dialog'.rows, dialog'.cols, dialog'.auto_crop, e)) =>
           /\ decoders' = decoders
           /\ dispatched' = <<>>
           /\ selected_monitors' = selected_monitors
           /\ message' = "Selecione exatamente"]_vars

\* The warning for a shape that does not hold the selection, which is still
\* in place.
ShapeMismatchSeen ==
    /\ dialog.handler = "_apply_matrix"
    /\ message = "Selecione exatamente"
    /\ Len(selected_monitors) >= 2
    /\ Len(selected_monitors) # dialog.rows * dialog.cols
    /\ dispatched = <<>>

\* The number of monitors of a list that come before decoder d in (row,
\* column) order: a function of the set of monitors only.
Rank(decs, mons, d) ==
    Cardinality({m \in Range(mons) :
                    PositionLess(decs[m.decoder].position, decs[d].position)})

Region(x, y, width, height) ==
    to_dict(CropRegion(x, y, width, height, FrameWidth, FrameHeight, TRUE))

At(decs, row, col) == CHOOSE d \in DOMAIN decs : decs[d].position = <<row, col>>

\* A matrix with auto-crop has just been made.
Tiling == dialog.handler = "_apply_matrix" /\ message = "Matriz criada!" /\ dialog.auto_crop

Chosen == {dialog.selected[k].decoder : k \in DOMAIN dialog.selected}

\* C7: a matrix with auto-crop gives every selected decoder the source and the
\* tile of its rank by (row, column) among the selected decoders, whatever
\* the order they were clicked in; four decoders at (0,0), (0,1), (1,0),
\* (1,1) tiled 2 x 2 from a 1920 x 1080 source get (0,0,960,540),
\* (960,0,960,540), (0,540,960,540) and (960,540,960,540).
MatrixIgnoresClickOrder ==
    Tiling =>
        /\ \A d \in Chosen :
              /\ decoders[d].current_source = dialog.encoder
              /\ decoders[d].crop =
                    to_dict(tile(Rank(decoders, dialog.selected, d), dialog.rows,
                                 dialog.cols, encoders[dialog.encoder].width,
                                 encoders[dialog.encoder].height))
        /\ (/\ dialog.rows = 2 /\ dialog.cols = 2
            /\ {decoders[d].position : d \in Chosen} =
                   {<<0, 0>>, <<0, 1>>, <<1, 0>>, <<1, 1>>}) =>
               /\ decoders[At(decoders, 0, 0)].crop = Region(0, 0, 960, 540)
               /\ decoders[At(decoders, 0, 1)].crop = Region(960, 0, 960, 540)
               /\ decoders[At(decoders, 1, 0)].crop = Region(0, 540, 960, 540)
               /\ decoders[At(decoders, 1, 1)].crop = Region(960, 540, 960, 540)

\* The 2 x 2 matrix of the four decoders, clicked from the bottom right to
\* the top left.
MatrixOfFourSeen ==
    /\ Tiling
    /\ dialog.rows = 2 /\ dialog.cols = 2
    /\ [k \in DOMAIN dialog.selected |-> decoders[dialog.selected[k].decoder].position] =
          <<(<<1, 1>>), (<<1, 0>>), (<<0, 1>>), (<<0, 0>>)>>
    /\ decoders[At(decoders, 1, 1)].crop = Region(960, 540, 960, 540)
    /\ decoders[At(decoders, 0, 0)].crop = Region(0, 0, 960, 540)

\* The tile row and column a decoder's crop is at.
TileRow(d) == decoders[d].crop.y \div (encoders[dialog.encoder].height \div dialog.rows)

TileCol(d) == decoders[d].crop.x \div (encoders[dialog.encoder].width \div dialog.cols)

\* C8, as stated: after a matrix with auto-crop of rows x cols (both at least
\* 1), of two selected decoders the one in the higher grid row never has a
\* tile of a lower tile row, and in the same grid row the one in the smaller
\* grid column never has a tile of a larger tile column.
TilesFollowGrid ==
    (Tiling /\ dialog.rows >= 1 /\ dialog.cols >= 1) =>
        \A a \in Chosen, b \in Chosen :
            /\ decoders[a].position[1] < decoders[b].position[1] =>
                  TileRow(a) <= TileRow(b)
            /\ (/\ decoders[a].position[1] = decoders[b].position[1]
                /\ decoders[a].position[2] < decoders[b].position[2]) =>
                  TileCol(a) <= TileCol(b)

\* C11: in every reachable state of the store, after crops from the crop
\* dialog, matrices of any integer rows and cols whose product is the number
\* of selected monitors, crops of several monitors, snapshots and restores,
\* every decoder's crop satisfies the invariant of a crop region within the
\* frame the crop records.
StoredCropsSatisfyInvariant ==
    \A d \in DOMAIN decoders :
        decoders[d].crop # None =>
            RegionInvariant(decoders[d].crop, decoders[d].crop.source_width,
                            decoders[d].crop.source_height)

(***************************************************************************)
(* Properties of the calls of AVCITController.                             *)
(***************************************************************************)
\* The log entries of the candidate commands of the call, and the candidate
\* commands written to the device.
Attempts == SelectSeq(command_log, LAMBDA entry : entry.command \in Range(call.commands))

Written == SelectSeq(wire, LAMBDA line : line.phase = "command")

Commands(entries) == [k \in DOMAIN entries |-> entries[k].command]

Texts(lines) == [k \in DOMAIN lines |-> lines[k].text]

LoggedIn == call.logins # <<>> /\ call.logins[Len(call.logins)][3]

\* A switch has ended on a device that answered every candidate and accepted
\* none.
NothingAccepted ==
    /\ call.intent = "switch_source" /\ call.pc = "done"
    /\ Len(call.replies) = Len(call.commands)
    /\ \A k \in DOMAIN call.replies : call.replies[k] = ReplyUnknown

\* C12, as stated: a switch on a device that accepts no candidate fails, and
\* the log holds one entry for each candidate tried, each with success false.
FailedSwitchLogsFailures ==
    NothingAccepted =>
        /\ ~call.result.success
        /\ Commands(Attempts) = call.commands
        /\ \A k \in DOMAIN Attempts : ~Attempts[k].success

\* C13, as stated: a switch on a device that accepts only the third candidate
\* path of its HTTP port (after the binary socket, before the session)
\* succeeds, and the log has an accepted entry, which is neither a login nor
\* a command of the session.
SwitchFindsHttpPath ==
    (call.intent = "switch_source" /\ call.pc = "done" /\ device = Device("refuses", {3})) =>
        /\ call.result.success
        /\ \E k \in DOMAIN command_log :
              /\ command_log[k].success
              /\ command_log[k].command \notin Range(call.commands)
              /\ command_log[k].command # "LOGIN " \o username

\* C14, as stated: every candidate command written to a device by a switch,
\* a crop or a clearing of the crop has its entry in the log, whatever came
\* of it; only the command just written, whose response is being read, has
\* none yet.
EveryAttemptLogged ==
    call.intent \in SessionIntents =>
        /\ Len(Attempts) + (IF call.pc = "read" THEN 1 ELSE 0) = Len(Written)
        /\ Commands(Attempts) = SubSeq(Texts(Written), 1, Len(Attempts))

\* C15, as stated: when a switch or a crop that logged in has ended, the
\* candidates written are the first ones of the list, once each and in
\* order; if it succeeded, the last written is the command returned, its
\* response is the first one accepted and nothing was written after it; if
\* it failed, every candidate was written.
CandidatesInOrder ==
    (call.intent \in {"switch_source", "set_crop"} /\ call.pc = "done" /\ LoggedIn) =>
        /\ Len(Written) <= Len(call.commands)
        /\ Texts(Written) = SubSeq(call.commands, 1, Len(Written))
        /\ call.result.success =>
              /\ call.result.cmd = call.commands[Len(Written)]
              /\ Len(call.replies) = Len(Written)
              /\ \A k \in DOMAIN call.replies :
                    (call.replies[k] # ConnectionClosed /\ accepts(call.intent, call.replies[k]))
                        <=> k = Len(call.replies)
        /\ ~call.result.success => Texts(Written) = call.commands

\* The tokens of the acceptance of a response.
CONNECTED == <<"C", "O", "N", "N", "E", "C", "T", "E", "D">>
ERROR == <<"E", "R", "R", "O", "R">>
FAIL == <<"F", "A", "I", "L">>
INVALID == <<"I", "N", "V", "A", "L", "I", "D">>
UNKNOWN == <<"U", "N", "K", "N", "O", "W", "N">>
DENIED == <<"D", "E", "N", "I", "E", "D">>

Accepted(response) ==
    /\ \E word \in {OK, SUCCESS, DONE, ACCEPTED, CONNECTED} : contains(word, upper(response))
    /\ \A word \in {ERROR, FAIL, INVALID, UNKNOWN, DENIED} : ~contains(word, upper(response))

\* C16, as stated: a switch or a crop accepts a response it read, and ends
\* with success on it, exactly when the response has one of OK, SUCCESS,
\* DONE, ACCEPTED, CONNECTED and none of ERROR, FAIL, INVALID, UNKNOWN,
\* DENIED, in any case of letters.
SessionAcceptance ==
    call.intent \in {"switch_source", "set_crop"} =>
        \A k \in DOMAIN call.replies :
            call.replies[k] # ConnectionClosed =>
                ((k = Len(call.replies) /\ call.pc = "done" /\ call.result.success)
                    <=> Accepted(call.replies[k]))

\* The login of a switch, a crop or a clearing was answered with a banner
\* that has incorrect, failed or denied in it.
LoginRejected ==
    /\ call.intent \in SessionIntents
    /\ call.logins # <<>>
    /\ \E word \in {incorrect, failed, denied} : contains(word, lower(call.login_response))

\* C17: when the banner after the login has incorrect, failed or denied in
\* it, in any case of letters, the login fails and is logged as failed, the
\* session is closed, and the switch, crop or clearing returns failure with
\* no command written to the device.
RejectedLoginSendsNothing ==
    LoginRejected =>
        /\ ~LoggedIn
        /\ ~command_log[Len(command_log)].success
        /\ tn = "closed"
        /\ call.pc = "done" /\ ~call.result.success
        /\ Written = <<>>

\* A clearing of the crop whose login was answered "Access Denied".
DeniedLoginSeen ==
    /\ LoginRejected
    /\ call.intent = "clear_crop"
    /\ contains(denied, lower(call.login_response))
    /\ ~contains(denied, call.login_response)
    /\ call.pc = "done" /\ tn = "closed" /\ Len(wire) = 2

\* C18, as stated: on a device that takes the connection and never sends the
\* login or the password prompt, the login gives no session and is logged as
\* failed, and no command is written.
SilentDeviceFailsLogin ==
    (device.session = "silent" /\ call.intent \in SessionIntents /\ call.logins # <<>>) =>
        /\ ~LoggedIn
        /\ ~command_log[1].success
        /\ Written = <<>>

\* C19, as stated: every network failure of a switch, a crop or a clearing
\* (a connection refused or lost, a write or a read that raises) is in the
\* log as a failed entry with the error, and the call goes on to its next
\* candidate until, with none left, it returns failure; a probe that does
\* not connect returns failure.
NetworkErrors == {ConnectionRefused, ConnectionClosed, BrokenPipe}

NetworkFailuresLogged ==
    /\ call.intent \in SessionIntents =>
          Cardinality({k \in DOMAIN command_log :
                          /\ ~command_log[k].success
                          /\ command_log[k].response \in NetworkErrors}) = call.failures
    /\ (call.intent = "ping_device" /\ call.failures > 0) => ~call.result.success
    /\ (call.intent \in {"switch_source", "set_crop"} /\ call.pc = "done" /\ LoggedIn
           /\ ~call.result.success) => Texts(Written) = call.commands

\* C20: try_default_credentials logs in with the default pairs in the order
\* of the list, one login each; it goes on only after a login that failed,
\* returns the first pair that logs in, fails only when all the pairs have
\* failed, and writes no command to the device.
DefaultsTriedInOrder ==
    call.intent = "try_default_credentials" =>
        LET n == Len(call.logins)
        IN /\ n <= Len(DEFAULT_CREDENTIALS)
           /\ \A k \in 1 .. n :
                 /\ call.logins[k][1] = DEFAULT_CREDENTIALS[k][1]
                 /\ call.logins[k][2] = DEFAULT_CREDENTIALS[k][2]
                 /\ k < n => ~call.logins[k][3]
           /\ Commands(command_log) = [k \in 1 .. n |-> "LOGIN " \o DEFAULT_CREDENTIALS[k][1]]
           /\ Written = <<>>
           /\ call.pc # "done" => ~LoggedIn
           /\ call.pc = "done" =>
                 IF call.result.success
                 THEN /\ LoggedIn
                      /\ call.result.username = DEFAULT_CREDENTIALS[n][1]
                      /\ call.result.password = DEFAULT_CREDENTIALS[n][2]
                 ELSE ~LoggedIn /\ n = Len(DEFAULT_CREDENTIALS)

\* The third pair logged in after the first was answered "Login incorrect"
\* and the connection of the second was lost.
ThirdDefaultSeen ==
    /\ call.intent = "try_default_credentials" /\ call.pc = "done"
    /\ call.result.success
    /\ call.result.username = "root" /\ call.result.password = "root"
    /\ Len(call.logins) = 3
    /\ command_log[1].response = CredenciaisIncorretas
    /\ command_log[2].response = ConnectionClosed

(***************************************************************************)
(* Properties of the monitor thread.                                       *)
(***************************************************************************)
\* The status of the i-th device of a sweep.
SweptStatus(i) ==
    IF IsEncoder(i) THEN encoders[SweptEncoder(i)].status
    ELSE decoders[SweptDecoder(i)].status

SweepEnded == monitor.pc = "test" /\ monitor.last # "none"

\* C22: after any sweep, returned or raised, another sweep is eventually
\* started unless monitoring is disabled; the thread leaves the loop only at
\* the loop test with monitoring disabled, and with monitoring disabled the
\* loop test starts no new period.
MonitorLoopSurvives ==
    /\ SweepEnded ~> (monitor.pc = "sweep" \/ ~monitoring)
    /\ [][monitor'.pc = "exited" => (monitor.pc = "test" /\ ~monitoring)]_vars
    /\ [][(monitor.pc = "test" /\ ~monitoring)
            => monitor'.pc \notin {"sleep", "sweep"}]_vars

\* A new sweep is running after a sweep that raised.
SweepAfterRaisedSweep == monitor.pc = "sweep" /\ monitor.last = "raised"

(***************************************************************************)
(* Properties of the command log.                                          *)
(***************************************************************************)
Min(a, b) == IF a < b THEN a ELSE b

\* The log holds the most recently appended entries, in append order.
MostRecent ==
    \A j \in DOMAIN command_log :
        command_log[j] = Entry(loggers.appended - Len(command_log) + j)

\* C23: after any number of sequential appends the log holds the
\* min(appends, 200) most recent entries in append order: never more than
\* 200, and an append to a full log drops the oldest entry and no other.
LogIsBoundedFifo ==
    /\ Len(command_log) = Min(loggers.appended, LogCapacity)
    /\ Len(command_log) <= LogCapacity
    /\ MostRecent

\* More appends than the capacity have been made: the oldest are gone.
OldestEvicted ==
    /\ loggers.appended = LogCapacity + 2
    /\ Len(command_log) = LogCapacity
    /\ command_log[1] = Entry(3)
    /\ command_log[LogCapacity] = Entry(LogCapacity + 2)

AppendersDone == \A t \in DOMAIN loggers.pcs : loggers.pcs[t].pc = "append"

\* C24: whatever the interleaving of the log_command calls, the log holds
\* the most recently appended entries in append order, an entry is evicted
\* only from a log of more than 200 entries, and with no call in progress
\* the log has at most 200 entries.
ConcurrentAppendSafe ==
    /\ [](MostRecent /\ (AppendersDone => Len(command_log) <= LogCapacity))
    /\ [][Len(command_log') < Len(command_log)
            => Len(command_log) > LogCapacity]_vars

\* C32: whatever the interleaving of log_command calls with clear_log, no
\* thread reaches pop(0) on an empty log, and no log_command call raises.
EvictionFindsEntry ==
    \A t \in DOMAIN loggers.pcs :
        /\ loggers.pcs[t].pc = "pop" => command_log # <<>>
        /\ loggers.pcs[t].pc # "raised"

(***************************************************************************)
(* Properties of the threads the handlers start.                           *)
(***************************************************************************)
\* C25: every set_crop thread a handler starts is for a decoder that has a
\* current source, the one a switch was dispatched for before.
SetCropFollowsSwitch ==
    \A k \in DOMAIN dispatched :
        dispatched[k].target = "set_crop"
            => decoders[dispatched[k].decoder].current_source # NoSource

\* C27: a preset load and a matrix each start one thread per decoder they
\* touch, never two for the same decoder.
OneTaskPerDecoder ==
    (message = "Preset carregado!" \/ dialog.handler = "_apply_matrix")
        => \A i, j \in DOMAIN dispatched :
               dispatched[i].decoder = dispatched[j].decoder => i = j

LastSwitch(d) ==
    LET ks == {k \in DOMAIN threads :
                  /\ threads[k].task.decoder = d
                  /\ threads[k].task.target = "_send_switch_command"}
    IN IF ks = {} THEN 0 ELSE CHOOSE k \in ks : \A j \in ks : j <= k

\* C26: from the moment the thread of an assignment is started, before its
\* switch_source call and whatever that call's outcome, the store holds the
\* assigned encoder as the decoder's current source.
OptimisticCommit ==
    \A d \in DOMAIN decoders :
        LastSwitch(d) # 0
            => decoders[d].current_source = threads[LastSwitch(d)].task.encoder

\* The switch of an assignment was rejected at login and its thread has
\* ended; the store still holds the assigned encoder.
FailedSwitchKept ==
    \E d \in DOMAIN decoders :
        /\ LastSwitch(d) # 0
        /\ threads[LastSwitch(d)].pc = "done"
        /\ threads[LastSwitch(d)].outcome = "login failure"
        /\ applied[d].source = NoSource
        /\ decoders[d].current_source = threads[LastSwitch(d)].task.encoder

\* C28: a device shows the source and the crop that the thread which last
\* reached it was started with or read for itself, not what the store holds
\* when that thread runs; threads for one decoder can reach the device in
\* an order other than their start order.
DeviceShowsLastArrival ==
    \A d \in DOMAIN applied :
        /\ applied[d].source_by # 0
              => /\ threads[applied[d].source_by].task.decoder = d
                 /\ applied[d].source = threads[applied[d].source_by].task.encoder
        /\ applied[d].crop_by # 0
              => /\ threads[applied[d].crop_by].task.decoder = d
                 /\ applied[d].crop = threads[applied[d].crop_by].task.crop

AllThreadsDone == \A k \in DOMAIN threads : threads[k].pc = "done"

\* Two assignments of one decoder, A then B, have both ended; the device
\* shows A's encoder and the store holds B's.
ReorderedSwitches ==
    \E d \in DOMAIN decoders :
        /\ Len(threads) = 2
        /\ AllThreadsDone
        /\ threads[1].task.decoder = d
        /\ threads[2].task.decoder = d
        /\ threads[1].outcome = "accepted"
        /\ threads[2].outcome = "accepted"
        /\ applied[d].source_by = 1
        /\ applied[d].source = threads[1].task.encoder
        /\ decoders[d].current_source = threads[2].task.encoder
        /\ threads[1].task.encoder # threads[2].task.encoder

\* The decoders of the wall that the first preset gives a source of the
\* store and a crop.
Restored ==
    IF presets[1] = None THEN {}
    ELSE {d \in DOMAIN presets[1].mappings \cap DOMAIN presets[1].crops :
             d \in monitor_widgets /\ presets[1].mappings[d] \in DOMAIN encoders}

\* C33: of the threads a preset load starts for a decoder with a mapping
\* and an enabled crop, the set_crop thread is started with the preset's
\* crop, and the switch thread sends no crop or the preset's crop.
RestoreSendsPresetCrop ==
    \A k \in DOMAIN threads :
        LET task == threads[k].task
        IN  (task.target = "_send_switch_command" /\ task.decoder \in Restored)
                => \/ task.crop = None
                   \/ task.crop = from_dict(presets[1].crops[task.decoder])

\* The tasks of a list that are for decoder d and have the given target.
TasksFor(tasks, d, target) ==
    {k \in DOMAIN tasks : tasks[k].decoder = d /\ tasks[k].target = target}

\* C33, as the program has it: a preset load starts, for a decoder with a
\* mapping and an enabled crop, one switch thread and one set_crop thread
\* with the preset's crop; the switch thread sends one more set_crop if the
\* store holds an enabled crop for the decoder when its switch has returned,
\* and it sends that crop: the preset's, unless the operator has changed it.
RestoreSendsStoreCrop ==
    [][/\ (message' = "Preset carregado!" /\ ops' = ops + 1)
            => \A d \in Restored :
                  /\ Cardinality(TasksFor(dispatched', d, "_send_switch_command")) = 1
                  /\ Cardinality(TasksFor(dispatched', d, "set_crop")) = 1
                  /\ \A k \in TasksFor(dispatched', d, "set_crop") :
                        dispatched'[k].crop = from_dict(presets[1].crops[d])
       /\ \A k \in DOMAIN threads :
             /\ (threads[k].pc = "crop_test" /\ threads'[k].pc = "set_crop")
                   => /\ decoders[threads[k].task.decoder].crop # None
                      /\ threads'[k].task.crop
                            = from_dict(decoders[threads[k].task.decoder].crop)
             /\ threads[k].pc = "done" => threads'[k] = threads[k]]_vars

\* The switch thread of a loaded preset is about to send, or has sent, a
\* crop that is not the preset's.
OperatorCropSent ==
    \E k \in DOMAIN threads :
        /\ threads[k].task.target = "_send_switch_command"
        /\ threads[k].task.decoder \in Restored
        /\ threads[k].task.crop # None
        /\ threads[k].task.crop # from_dict(presets[1].crops[threads[k].task.decoder])
        /\ threads[k].pc = "done"

(***************************************************************************)
(* Properties of the matrix groups of the store.                           *)
(***************************************************************************)
\* C30: when a matrix has been made, the store holds a matrix group with
\* the selection in position order, rows * cols equal to its length, and
\* the chosen encoder as its source.
MatrixGroupRecorded ==
    (dialog.handler = "_apply_matrix" /\ message = "Matriz criada!")
        => \E g \in DOMAIN matrices :
              /\ matrices[g].decoders
                    = [k \in DOMAIN dialog.selected |->
                          SortByPosition(decoders, dialog.selected)[k].decoder]
              /\ matrices[g].rows * matrices[g].cols = Len(dialog.selected)
              /\ matrices[g].source = dialog.encoder

(***************************************************************************)
(* Properties of the entities of the store.                                *)
(***************************************************************************)
\* C29: whatever the operator and the monitor thread have done, every
\* encoder is as init_devices made it but for its status, every decoder is
\* as init_devices made it but for its current source, crop and status, and
\* no two decoders have the same grid position.
EntitiesKeepIdentity ==
    /\ DOMAIN encoders = EncoderIds
    /\ \A e \in DOMAIN encoders :
          [encoders[e] EXCEPT !.status = "offline"] = Encoder(e)
    /\ DOMAIN decoders = 1 .. StripRows * StripCols
    /\ \A d \in DOMAIN decoders :
          [decoders[d] EXCEPT !.current_source = NoSource, !.crop = None,
                              !.status = "offline"]
              = Decoder(d, (d - 1) \div StripCols, (d - 1) % StripCols)
    /\ \A c, d \in DOMAIN decoders :
          decoders[c].position = decoders[d].position => c = d

\* The display mode has been changed to a smaller grid after a decoder was
\* given a source and a crop.
SmallerGridSeen ==
    /\ grid_rows * grid_cols < Cardinality(DOMAIN decoders)
    /\ \E d \in DOMAIN decoders :
          decoders[d].current_source # NoSource /\ decoders[d].crop # None

(***************************************************************************)
(* Properties of the presets of a configuration file.                      *)
(***************************************************************************)
\* C31: every decoder's current source is none or the id of an encoder of
\* the store, also after the load of a preset whose mappings name a decoder
\* or an encoder the store does not have.
SourcesAreEncoders ==
    \A d \in DOMAIN decoders :
        decoders[d].current_source = NoSource
            \/ decoders[d].current_source \in DOMAIN encoders

\* A preset that maps decoder 1 to an unknown encoder, and an unknown
\* decoder too, has been loaded over a source; decoder 1 is left cleared.
UnknownMappingSkipped ==
    /\ message = "Preset carregado!"
    /\ presets[1] # None
    /\ DOMAIN presets[1].mappings = ConfigDecoders
    /\ presets[1].mappings[1] \notin DOMAIN encoders
    /\ decoders[1].current_source = NoSource
    /\ ops = 2

\* C37: in every state, loading a preset twice in a row leaves the
\* decoders' sources and crops as loading it once does.
RestoreIdempotent ==
    \A p \in PresetIds :
        presets[p] # None
            => LET once == load_preset(decoders, presets[p], monitor_widgets, encoders)
               IN load_preset(once, presets[p], monitor_widgets, encoders) = once

\* A preset with a known mapping and a crop has been loaded twice in a row.
RestoredTwice ==
    /\ message = "Preset carregado!"
    /\ ops = 2
    /\ presets[1] # None
    /\ decoders = load_preset(decoders, presets[1], monitor_widgets, encoders)
    /\ decoders[1].current_source # NoSource
    /\ decoders[1].crop # None

\* C34, as stated: a clear_crop call that has returned reports success
\* exactly when its login gave a session; after a login that gave one it has
\* written the five reset commands in order and read no response, and after
\* one that gave none it has written no command.
ClearCropFollowsLogin ==
    (call.intent = "clear_crop" /\ call.pc = "done")
        => /\ call.result.success <=> LoggedIn
           /\ call.replies = <<>>
           /\ Texts(Written) = (IF LoggedIn THEN clear_commands ELSE <<>>)

\* C35: a login of try_default_credentials that gives a session makes its
\* pair the configured one, is the first of the call to give one and ends
\* the call, and a login that gives none leaves the configured pair as it
\* was; any other step that changes the configured pair is set_credentials.
ConfiguredPair == <<username, password>>

DefaultsLogin ==
    /\ call.intent = "try_default_credentials"
    /\ call.pc = "login"
    /\ call' # call

CredentialsFollowDefaults ==
    [][/\ DefaultsLogin
            => LET n == Len(call'.logins)
               IN IF call'.logins[n][3]
                  THEN /\ ConfiguredPair' = DEFAULT_CREDENTIALS[n]
                       /\ \A k \in 1..(n - 1) : ~call'.logins[k][3]
                       /\ call'.pc = "done"
                       /\ call'.result.success
                  ELSE ConfiguredPair' = ConfiguredPair
       /\ (~DefaultsLogin /\ ConfiguredPair' # ConfiguredPair)
            => \E pair \in TypedCredentials : set_credentials(pair[1], pair[2])]_vars

\* The first default pair was refused a session and the second was given
\* one, and is now the configured pair.
SecondDefaultConfigured ==
    /\ call.intent = "try_default_credentials"
    /\ call.pc = "done"
    /\ Len(call.logins) = 2
    /\ ~call.logins[1][3]
    /\ call.logins[2][3]
    /\ ConfiguredPair = DEFAULT_CREDENTIALS[2]

\* C38: a matrix made of the selection gives every selected decoder the
\* chosen encoder as its source and, without auto-crop, leaves its crop as
\* it was; every decoder outside the selection keeps its source and its
\* crop, with auto-crop or without.
MatrixMade ==
    /\ dialog'.handler = "_apply_matrix"
    /\ message' = "Matriz criada!"
    /\ ops' = ops + 1

MatrixLeavesCrops ==
    [][MatrixMade =>
          LET selected == {selected_monitors[k].decoder : k \in DOMAIN selected_monitors}
          IN \A d \in DOMAIN decoders :
                IF d \in selected
                THEN /\ decoders'[d].current_source = dialog'.encoder
                     /\ ~dialog'.auto_crop => decoders'[d].crop = decoders[d].crop
                ELSE /\ decoders'[d].current_source = decoders[d].current_source
                     /\ decoders'[d].crop = decoders[d].crop]_vars

\* A matrix without auto-crop has been made of a selection that leaves a
\* decoder out and holds a decoder with a crop, which it still has.
CropKeptUnderMatrix ==
    /\ dialog.handler = "_apply_matrix"
    /\ message = "Matriz criada!"
    /\ ~dialog.auto_crop
    /\ Chosen # DOMAIN decoders
    /\ \E d \in Chosen : /\ decoders[d].crop # None
                         /\ decoders[d].current_source = dialog.encoder

\* C36: every step of the monitor thread, taken at any moment between the
\* operator's actions, leaves each decoder and each encoder as it was but
\* for its status, every preset as it was, and the entries the command log
\* holds in place.
MonitorStep == monitor' # monitor

SweepChangesStatusOnly ==
    [][MonitorStep =>
          /\ \A d \in DOMAIN decoders :
                decoders'[d] = [decoders[d] EXCEPT !.status = decoders'[d].status]
          /\ \A e \in DOMAIN encoders :
                encoders'[e] = [encoders[e] EXCEPT !.status = encoders'[e].status]
          /\ DOMAIN decoders' = DOMAIN decoders
          /\ presets' = presets
          /\ Len(command_log') >= Len(command_log)
          /\ SubSeq(command_log', 1, Len(command_log)) = command_log]_vars

\* The sweep has found decoder 1 online and is not over; decoder 1 has a
\* source and a crop and the first preset is saved with them.
SweptAmongActions ==
    /\ monitor.pc = "sweep"
    /\ monitor.i > NumEncoders + 1
    /\ decoders[1].status = "online"
    /\ decoders[1].current_source # NoSource
    /\ decoders[1].crop # None
    /\ presets[1] # None
    /\ 1 \in DOMAIN presets[1].crops

====
